---- MODULE Spec2Model ----
(***************************************************************************)
(* coldmic: the push-to-talk session controller (internal/usecase), its    *)
(* two background tasks (audio pump, transcript-event consumer), the       *)
(* transcript aggregator and finalizer, and the two StreamingSession       *)
(* implementations of the repository: the Deepgram websocket session       *)
(* (internal/providers/deepgram/streaming.go) and the in-memory session    *)
(* the controller's tests run against (controller_test.go).                *)
(*                                                                         *)
(* Text is a sequence of one-character strings, so that TrimSpace, Join,   *)
(* HasSuffix and len are computed as the Go code computes them.            *)
(***************************************************************************)
EXTENDS Naturals, Integers, Sequences, FiniteSets, TLC

\* ------------------------------------------------------------------ bounds

\* Controller calls (Start/Stop/Abort) one run may begin.
MaxCalls == 2
\* Transcript messages the remote side may deliver on one Deepgram session.
MaxMessages == 1
\* Capacity of the streaming session's audio queue (32 in the source).
AudioCap == 1
\* Capacity of the streaming session's event channel (64 in the source).
EventCap == 1

\* ------------------------------------------------------------------ text

SP == " "
EmptyText == << >>

RECURSIVE TrimLeft(_)
TrimLeft(t) == IF t # << >> /\ Head(t) = SP THEN TrimLeft(Tail(t)) ELSE t

RECURSIVE TrimRight(_)
TrimRight(t) ==
  IF t # << >> /\ t[Len(t)] = SP THEN TrimRight(SubSeq(t, 1, Len(t) - 1)) ELSE t

\* strings.TrimSpace
TrimSpace(t) == TrimRight(TrimLeft(t))

\* strings.Join(parts, " ")
RECURSIVE Join(_)
Join(parts) ==
  IF parts = << >> THEN << >>
  ELSE IF Len(parts) = 1 THEN parts[1]
  ELSE parts[1] \o <<SP>> \o Join(Tail(parts))

\* strings.HasSuffix
HasSuffix(s, suffix) ==
  /\ Len(suffix) <= Len(s)
  /\ SubSeq(s, Len(s) - Len(suffix) + 1, Len(s)) = suffix

\* The transcripts the remote side (or a test) puts into events.
T_blank == <<" ">>
T_a     == <<"a">>
T_padb  == <<" ", "b">>

\* domain.TranscriptEvent
Partial == "partial"
Final   == "final"
Event(kind, text) == [kind |-> kind, text |-> text]

\* the events a run draws from: a partial, and finals with a transcript that is
\* blank and one that has space around it
Events == {Event(Partial, T_a), Event(Final, T_blank), Event(Final, T_padb)}

\* what a test buffers in the in-memory session before the controller starts
Preloads ==
  { << >>,
    <<Event(Partial, T_a)>>,
    <<Event(Final, T_padb)>>,
    <<Event(Partial, T_a), Event(Final, T_padb)>>,
    <<Event(Partial, T_a), Event(Final, T_blank)>> }

\* ------------------------------------------------------------------ domain

Idle      == "idle"
Recording == "recording"
Stopping  == "stopping"
ErrorSt   == "error"

\* error values: msg names the error, code is the close code of an unwrapped
\* *websocket.CloseError (0 for every other error, a wrapped one included)
Err(msg, code) == [msg |-> msg, code |-> code]
Nil == Err("nil", 0)
ErrNoActiveSession == Err("no active recording session", 0)
ErrNoTranscript    == Err("no transcript captured", 0)

\* domain.StopResult
StopResult(raw, final, copied) == [raw |-> raw, final |-> final, copied |-> copied]
EmptyResult == StopResult(EmptyText, EmptyText, FALSE)

\* ------------------------------------------------------------------ aggregator

\* Add without the trimming: a faulty variant, to see that the properties
\* below tell the two apart
AddUntrimmed(agg, event) ==
  IF TrimSpace(event.text) = EmptyText THEN agg
  ELSE [finals |-> IF event.kind = Final THEN Append(agg.finals, event.text)
                   ELSE agg.finals,
        lastSpoken |-> event.text]

\* transcriptAggregator.Add
Add(agg, event) ==
  LET text == TrimSpace(event.text) IN
  IF text = EmptyText THEN agg
  ELSE [finals |-> IF event.kind = Final THEN Append(agg.finals, text) ELSE agg.finals,
        lastSpoken |-> text]

\* Raw without the fallback to the last fragment: a faulty variant
RawFinalsOnly(agg) == TrimSpace(Join(agg.finals))

\* Raw as the last fragment alone: a faulty variant
RawLastSpoken(agg) == agg.lastSpoken

\* Raw that appends the last fragment whatever its length: a faulty variant
RawAppendsAlways(agg) ==
  LET joined == TrimSpace(Join(agg.finals)) IN
  IF joined = EmptyText THEN agg.lastSpoken
  ELSE IF agg.lastSpoken = EmptyText THEN joined
  ELSE IF HasSuffix(joined, agg.lastSpoken) THEN joined
  ELSE TrimSpace(joined \o <<SP>> \o agg.lastSpoken)

\* transcriptAggregator.Raw
Raw(agg) ==
  LET joined == TrimSpace(Join(agg.finals)) IN
  IF joined = EmptyText THEN agg.lastSpoken
  ELSE IF agg.lastSpoken = EmptyText THEN joined
  ELSE IF HasSuffix(joined, agg.lastSpoken) THEN joined
  ELSE IF Len(agg.lastSpoken) > Len(joined)
       THEN TrimSpace(joined \o <<SP>> \o agg.lastSpoken)
  ELSE joined

newTranscriptAggregator == [finals |-> << >>, lastSpoken |-> EmptyText]

\* ------------------------------------------------------------------ state

Callers == {"c1", "c2"}

VARIABLES
  provider,   \* which ports.TranscriptionProvider the controller was built with
  graceOn,    \* cfg.StreamingGrace > 0
  current,    \* SessionController.current: index into sess, 0 for nil
  sess,       \* every streaming session opened so far, with the activeSession built on it
  pc,         \* where each caller is inside Start/Stop/Abort
  loc,        \* each caller's locals and, once the call returned, its results
  sink,       \* the state changes and transcripts ports.EventSink received, in order
  sinkErrors, \* the SessionError calls ports.EventSink received, in order
  rulesCalls, \* calls of ports.RulesEngine.Apply, in order: the text, and whether it succeeded
  clipboard,  \* calls of ports.Clipboard.SetText, in order: the text, and whether it succeeded
  callsLeft,  \* calls that may still begin
  panicked,   \* a goroutine panicked: the process is gone
  engine      \* the rules.Engine under study and the locals of its running Apply

cfgVars == <<provider, graceOn, engine>>
ctlVars == <<current, pc, loc, callsLeft>>
outVars == <<rulesCalls, clipboard>>
vars == <<cfgVars, ctlVars, sess, sink, sinkErrors, outVars, panicked>>

\* ------------------------------------------------------------------ streaming session

CloseNormalClosure    == 1000
CloseGoingAway        == 1001
CloseNoStatusReceived == 1005

\* websocket.IsCloseError(err, CloseNormalClosure, CloseGoingAway, CloseNoStatusReceived):
\* a type assertion on err itself, so only an unwrapped *CloseError matches
IsCloseError(err) ==
  err.code \in {CloseNormalClosure, CloseGoingAway, CloseNoStatusReceived}

\* fmt.Errorf("<msg>: %w", cause): the message names the cause, the result is
\* not a *CloseError
Wrap(msg, cause) == Err(msg \o ": " \o cause.msg, 0)

\* what conn.ReadMessage can fail with: the peer's normal closure, or an I/O
\* error (a broken or locally closed connection)
ReadErrors == {Err("close 1000 (normal)", CloseNormalClosure), Err("io", 0)}
WriteError == Err("io", 0)

\* Provider.StartStreaming: the session as constructed, both loops running
newStreamingSession ==
  [kind |-> "deepgram", events |-> << >>, eventsClosed |-> FALSE, audio |-> 0,
   done |-> FALSE, err |-> Nil, sendClosed |-> FALSE, closeOnce |-> FALSE,
   connClosed |-> FALSE, readLoop |-> "run", writeLoop |-> "run",
   closer |-> "wait", watcher |-> "wait", budget |-> MaxMessages,
   closeSend |-> 0, closeCalls |-> 0, audioCloses |-> 0, eventsCloses |-> 0,
   severs |-> 0]

\* newFakeStreamingSession, with the events a test buffers and its waitErr
newFakeStreamingSession(evs, waitErr) ==
  [kind |-> "fake", events |-> evs, eventsClosed |-> FALSE, audio |-> 0,
   done |-> FALSE, err |-> waitErr, sendClosed |-> FALSE, closeOnce |-> FALSE,
   connClosed |-> FALSE, readLoop |-> "done", writeLoop |-> "done",
   closer |-> "done", watcher |-> "done", budget |-> 0,
   closeSend |-> 0, closeCalls |-> 0, audioCloses |-> 0, eventsCloses |-> 0,
   severs |-> 0]

\* no streaming session: what a Start holds whose StartStreaming failed
noStream ==
  [kind |-> "none", events |-> << >>, eventsClosed |-> TRUE, audio |-> 0,
   done |-> TRUE, err |-> Nil, sendClosed |-> TRUE, closeOnce |-> TRUE,
   connClosed |-> TRUE, readLoop |-> "done", writeLoop |-> "done",
   closer |-> "done", watcher |-> "done", budget |-> 0,
   closeSend |-> 0, closeCalls |-> 0, audioCloses |-> 0, eventsCloses |-> 0,
   severs |-> 0]

\* streamingSession.setErr
setErr(st, err) ==
  IF err = Nil THEN st
  ELSE IF IsCloseError(err) THEN st
  ELSE IF st.err = Nil THEN [st EXCEPT !.err = err]
  ELSE st

\* streamingSession.emit: a send that never blocks; the event is dropped when
\* the channel is full (the done case cannot be ready while a loop still runs)
emit(st, event) ==
  IF Len(st.events) < EventCap THEN [st EXCEPT !.events = Append(@, event)] ELSE st

\* fakeStreamingSession: if !f.closed { close(f.events); f.closed = true }
closeOnceFake(st) ==
  IF st.eventsClosed THEN st
  ELSE [st EXCEPT !.eventsClosed = TRUE, !.eventsCloses = @ + 1]

\* a CloseSend without its sync.Once: a faulty variant
CloseSendUnguarded(st) ==
  IF st.kind = "fake"
  THEN closeOnceFake([st EXCEPT !.closeSend = @ + 1])
  ELSE [st EXCEPT !.sendClosed = TRUE, !.audioCloses = @ + 1]

\* streamingSession.CloseSend / fakeStreamingSession.CloseSend
\* (audioCloses counts the executions of close(s.audio), eventsCloses those of
\* close(events), severs those of Close's conn.Close())
CloseSend(st) ==
  IF st.kind = "fake"
  THEN closeOnceFake([st EXCEPT !.closeSend = @ + 1])
  ELSE IF st.sendClosed THEN st
  ELSE [st EXCEPT !.sendClosed = TRUE, !.audioCloses = @ + 1]

\* a Close that does nothing: a faulty variant
CloseNothing(st) == st

\* streamingSession.Close up to its wait for done / fakeStreamingSession.Close
Close(st) ==
  IF st.kind = "fake"
  THEN closeOnceFake([st EXCEPT !.closeCalls = @ + 1])
  ELSE IF st.closeOnce THEN st
  ELSE [CloseSend(st) EXCEPT !.closeOnce = TRUE, !.connClosed = TRUE,
                             !.severs = @ + 1]

\* a Wait and a Close that return at once: a faulty variant
TerminatedAlways(st) == TRUE

\* Wait and Close return once done is closed; the in-memory session never blocks
Terminated(st) == st.kind = "fake" \/ st.done

\* a Wait that never reports an error: a faulty variant
waitErrNone(st) == Nil

\* a Wait that always reports an error: a faulty variant
waitErrAlways(st) == Err("stream failed", 0)

\* streamingSession.waitErr / fakeStreamingSession.Wait's result
waitErr(st) == st.err

\* ------------------------------------------------------------------ session

\* what one Start has acquired: the session scope, the streaming session, the
\* capture session and, once built, the activeSession ("none" until then);
\* received is the history of what the consumer has taken from Events();
\* sendLate tells, while a SendAudio stands at its select, whether the session
\* had already failed or terminated when that SendAudio was called
newSlot(stream) ==
  [cancelled |-> FALSE,
   stream |-> stream,
   audio |-> [open |-> FALSE, stopped |-> FALSE, stopCalls |-> 0, stopErr |-> FALSE],
   state |-> "none",
   aggregator |-> newTranscriptAggregator,
   eventsDone |-> FALSE, audioDone |-> FALSE,
   pump |-> "off", consumer |-> "off", received |-> << >>, sendLate |-> FALSE]

Sids == 1 .. Len(sess)

\* EventSink: one entry per call, tagged with the session it was made for
Published(kind, a, b, sid) == Append(sink, [kind |-> kind, a |-> a, b |-> b, sid |-> sid])
SessionStateChanged(state, reason, sid) == Published("state", state, reason, sid)
PartialTranscript(text, sid)            == Published("partial", text, "", sid)
FinalTranscript(raw, final, sid)        == Published("final", raw, final, sid)
SessionError(code, sid) == Append(sinkErrors, [code |-> code, sid |-> sid])

noLocals ==
  [op |-> "none", prev |-> 0, act |-> 0, mark |-> 0, rules0 |-> 0, clip0 |-> 0,
   streamErr |-> Nil, raw |-> EmptyText, timedOut |-> FALSE,
   state |-> "none", reason |-> "none",
   err |-> Nil, result |-> EmptyResult, returned |-> FALSE]

\* the locals of a call that begins now
Begin(op) ==
  [noLocals EXCEPT !.op = op, !.mark = Len(sink), !.rules0 = Len(rulesCalls),
                   !.clip0 = Len(clipboard)]

Alive == ~panicked

\* a run is followed until its last call has returned
Running == Alive /\ (callsLeft > 0 \/ \E c \in Callers : pc[c] # "idle")

\* a session nothing refers to any more, its goroutines gone: what it held (the
\* transcript, the recorded error, what was left in its queues) is garbage
released(slot) ==
  [slot EXCEPT !.aggregator = newTranscriptAggregator, !.received = << >>,
               !.stream.err = Nil, !.stream.audio = 0, !.stream.budget = 0]

\* ------------------------------------------------------------------ deepgram loops

\* readLoop: a transcript message arrives; an empty transcript is skipped
readLoopMessage(i) ==
  /\ Running
  /\ sess[i].stream.kind = "deepgram"
  /\ sess[i].stream.readLoop = "run"
  /\ ~sess[i].stream.connClosed
  /\ sess[i].stream.budget > 0
  /\ \E msg \in Events :
       LET transcript == TrimSpace(msg.text)
           st == [sess[i].stream EXCEPT !.budget = @ - 1] IN
       sess' = [sess EXCEPT ![i].stream =
                  IF transcript = EmptyText THEN st
                  ELSE emit(st, Event(msg.kind, transcript))]
  /\ UNCHANGED <<cfgVars, sinkErrors, current, pc, loc, sink, rulesCalls, clipboard,
                 callsLeft, panicked>>

\* readLoop: an Error response arrives: an empty Final is emitted, the message
\* is recorded and the loop ends
readLoopProviderError(i) ==
  /\ Running
  /\ sess[i].stream.kind = "deepgram"
  /\ sess[i].stream.readLoop = "run"
  /\ ~sess[i].stream.connClosed
  /\ sess' = [sess EXCEPT ![i].stream =
                [setErr(emit(@, Event(Final, EmptyText)), Err("provider error", 0))
                   EXCEPT !.readLoop = "done"]]
  /\ UNCHANGED <<cfgVars, sinkErrors, current, pc, loc, sink, rulesCalls, clipboard,
                 callsLeft, panicked>>

\* readLoop: conn.ReadMessage fails (the peer closed, the network broke, or the
\* connection was closed locally): the wrapped error is recorded, the loop ends
readLoopReadError(i) ==
  /\ Running
  /\ sess[i].stream.kind = "deepgram"
  /\ sess[i].stream.readLoop = "run"
  /\ \E e \in ReadErrors :
       /\ sess[i].stream.connClosed => e.code = 0
       /\ sess' = [sess EXCEPT ![i].stream =
                     [setErr(@, Wrap("failed to read provider event", e))
                        EXCEPT !.readLoop = "done"]]
  /\ UNCHANGED <<cfgVars, sinkErrors, current, pc, loc, sink, rulesCalls, clipboard,
                 callsLeft, panicked>>

\* writeLoop: one chunk is taken from the audio queue and written; a failed
\* write is recorded and ends the loop
writeLoopChunk(i) ==
  /\ Running
  /\ sess[i].stream.kind = "deepgram"
  /\ sess[i].stream.writeLoop = "run"
  /\ sess[i].stream.audio > 0
  /\ \E ok \in BOOLEAN :
       /\ sess[i].stream.connClosed => ~ok
       /\ sess' = [sess EXCEPT ![i].stream =
                     IF ok THEN [@ EXCEPT !.audio = @ - 1]
                     ELSE [setErr(@, Wrap("failed to send audio", WriteError))
                             EXCEPT !.audio = @ - 1, !.writeLoop = "done"]]
  /\ UNCHANGED <<cfgVars, sinkErrors, current, pc, loc, sink, rulesCalls, clipboard,
                 callsLeft, panicked>>

\* writeLoop: the audio queue is closed and drained: CloseStream is written and
\* the loop ends
writeLoopCloseStream(i) ==
  /\ Running
  /\ sess[i].stream.kind = "deepgram"
  /\ sess[i].stream.writeLoop = "run"
  /\ sess[i].stream.audio = 0
  /\ sess[i].stream.sendClosed
  /\ \E ok \in BOOLEAN :
       /\ sess[i].stream.connClosed => ~ok
       /\ sess' = [sess EXCEPT ![i].stream =
                     [(IF ok THEN @ ELSE setErr(@, Wrap("failed to close stream", WriteError)))
                        EXCEPT !.writeLoop = "done"]]
  /\ UNCHANGED <<cfgVars, sinkErrors, current, pc, loc, sink, rulesCalls, clipboard,
                 callsLeft, panicked>>

\* a closer that does not wait for the receive loop: a faulty variant
closerCloseEventsEarly(i) ==
  /\ Running
  /\ sess[i].stream.kind = "deepgram"
  /\ sess[i].stream.closer = "wait"
  /\ sess[i].stream.writeLoop = "done"
  /\ sess' = [sess EXCEPT ![i].stream.eventsClosed = TRUE,
                          ![i].stream.eventsCloses = @ + 1,
                          ![i].stream.closer = "events"]
  /\ UNCHANGED <<cfgVars, sinkErrors, current, pc, loc, sink, rulesCalls, clipboard,
                 callsLeft, panicked>>

\* the goroutine of StartStreaming that waits for both loops: close(events)
closerCloseEvents(i) ==
  /\ Running
  /\ sess[i].stream.kind = "deepgram"
  /\ sess[i].stream.closer = "wait"
  /\ sess[i].stream.readLoop = "done"
  /\ sess[i].stream.writeLoop = "done"
  /\ sess' = [sess EXCEPT ![i].stream.eventsClosed = TRUE,
                          ![i].stream.eventsCloses = @ + 1,
                          ![i].stream.closer = "events"]
  /\ UNCHANGED <<cfgVars, sinkErrors, current, pc, loc, sink, rulesCalls, clipboard,
                 callsLeft, panicked>>

\* ... then close(done) and conn.Close()
closerCloseDone(i) ==
  /\ Running
  /\ sess[i].stream.kind = "deepgram"
  /\ sess[i].stream.closer = "events"
  /\ sess' = [sess EXCEPT ![i].stream.done = TRUE, ![i].stream.connClosed = TRUE,
                          ![i].stream.closer = "done"]
  /\ UNCHANGED <<cfgVars, sinkErrors, current, pc, loc, sink, rulesCalls, clipboard,
                 callsLeft, panicked>>

\* the goroutine of StartStreaming that closes the session when its context is done
contextWatcher(i) ==
  /\ Running
  /\ sess[i].stream.kind = "deepgram"
  /\ sess[i].stream.watcher = "wait"
  /\ sess[i].cancelled
  /\ sess' = [sess EXCEPT ![i].stream = [Close(@) EXCEPT !.watcher = "done"]]
  /\ UNCHANGED <<cfgVars, sinkErrors, current, pc, loc, sink, rulesCalls, clipboard,
                 callsLeft, panicked>>

\* ------------------------------------------------------------------ background tasks

ErrorCodeAudioStop     == "audio_stop"
ErrorCodeAudioStream   == "audio_stream"
ErrorCodeTranscription == "transcription"
ErrorCodeRules         == "rules"
ErrorCodeClipboard     == "clipboard"

\* a pump that returns without reporting its failure: a faulty variant
pumpReturnSilent(i, failed) ==
  /\ sess' = [sess EXCEPT ![i].pump = "done", ![i].audioDone = TRUE,
                          ![i].sendLate = FALSE]
  /\ sinkErrors' = sinkErrors

\* a pump that puts the session in the Error state when it fails: a faulty
\* variant
pumpReturnSetsError(i, failed) ==
  /\ sess' = [sess EXCEPT ![i].pump = "done", ![i].audioDone = TRUE,
                          ![i].sendLate = FALSE,
                          ![i].state = IF failed THEN ErrorSt ELSE @]
  /\ sinkErrors' = IF failed THEN SessionError(ErrorCodeAudioStream, i) ELSE sinkErrors

\* pumpAudioChunks returns: defer close(done)
pumpReturn(i, failed) ==
  /\ sess' = [sess EXCEPT ![i].pump = "done", ![i].audioDone = TRUE,
                          ![i].sendLate = FALSE]
  /\ sinkErrors' = IF failed THEN SessionError(ErrorCodeAudioStream, i) ELSE sinkErrors

\* pumpAudioChunks: audio.Read returns a chunk, end-of-input or an error (a
\* pipe read: data or an error, not both). A stopped capture session yields no
\* more data.
pumpRead(i) ==
  /\ Running
  /\ sess[i].pump = "read"
  /\ \/ /\ ~sess[i].audio.stopped
        /\ sess' = [sess EXCEPT ![i].pump = "send"]
        /\ sinkErrors' = sinkErrors
     \/ \E eof \in BOOLEAN : pumpReturn(i, ~eof)
  /\ UNCHANGED <<cfgVars, ctlVars, sink, outVars, panicked>>

\* SendAudio up to its select: the closed check under the read lock
\* (the in-memory session's SendAudio returns nil at once)
pumpSendAudio(i) ==
  /\ Running
  /\ sess[i].pump = "send"
  /\ IF sess[i].stream.kind = "fake"
     THEN /\ sess' = [sess EXCEPT ![i].pump = "read"]
          /\ sinkErrors' = sinkErrors
     ELSE IF sess[i].stream.sendClosed
     THEN pumpReturn(i, TRUE)
     ELSE /\ sess' = [sess EXCEPT ![i].pump = "enqueue",
                                  ![i].sendLate = (sess[i].stream.err # Nil
                                                   \/ sess[i].stream.done)]
          /\ sinkErrors' = sinkErrors
  /\ UNCHANGED <<cfgVars, ctlVars, sink, outVars, panicked>>

\* SendAudio's select, case s.audio <- copied: the chunk is queued when there is
\* room; the send panics when the queue has been closed meanwhile
pumpEnqueue(i) ==
  /\ Running
  /\ sess[i].pump = "enqueue"
  /\ IF sess[i].stream.sendClosed
     THEN /\ panicked' = TRUE
          /\ sess' = sess
     ELSE /\ sess[i].stream.audio < AudioCap
          /\ panicked' = FALSE
          /\ sess' = [sess EXCEPT ![i].stream.audio = @ + 1, ![i].pump = "read",
                                  ![i].sendLate = FALSE]
  /\ UNCHANGED <<cfgVars, ctlVars, sink, sinkErrors, outVars>>

\* SendAudio's select, case <-s.done: the session has terminated, an error is returned
pumpSendDone(i) ==
  /\ Running
  /\ sess[i].pump = "enqueue"
  /\ sess[i].stream.done
  /\ pumpReturn(i, TRUE)
  /\ UNCHANGED <<cfgVars, ctlVars, sink, outVars, panicked>>

\* a consumer that republishes Final events too: a faulty variant
consumeEventRepublishesAll(i) ==
  /\ Running
  /\ sess[i].consumer = "run"
  /\ sess[i].stream.events # << >>
  /\ LET event == Head(sess[i].stream.events)
         text == TrimSpace(event.text)
         rest == [sess EXCEPT ![i].stream.events = Tail(@),
                              ![i].received = Append(@, event)] IN
     IF text = EmptyText
     THEN /\ sess' = rest
          /\ sink' = sink
     ELSE /\ sess' = [rest EXCEPT ![i].aggregator = Add(@, event)]
          /\ sink' = PartialTranscript(text, i)
  /\ UNCHANGED <<cfgVars, sinkErrors, current, pc, loc, rulesCalls, clipboard,
                 callsLeft, panicked>>

\* consumeTranscriptionEvents: one event of the channel
consumeEvent(i) ==
  /\ Running
  /\ sess[i].consumer = "run"
  /\ sess[i].stream.events # << >>
  /\ LET event == Head(sess[i].stream.events)
         text == TrimSpace(event.text)
         rest == [sess EXCEPT ![i].stream.events = Tail(@),
                              ![i].received = Append(@, event)] IN
     IF text = EmptyText
     THEN /\ sess' = rest
          /\ sink' = sink
     ELSE /\ sess' = [rest EXCEPT ![i].aggregator = Add(@, event)]
          /\ sink' = IF event.kind = Partial THEN PartialTranscript(text, i) ELSE sink
  /\ UNCHANGED <<cfgVars, sinkErrors, current, pc, loc, rulesCalls, clipboard,
                 callsLeft, panicked>>

\* consumeTranscriptionEvents: the channel is closed and drained: defer close(done)
consumeClosed(i) ==
  /\ Running
  /\ sess[i].consumer = "run"
  /\ sess[i].stream.events = << >>
  /\ sess[i].stream.eventsClosed
  /\ sess' = [sess EXCEPT ![i].consumer = "done", ![i].eventsDone = TRUE]
  /\ UNCHANGED <<cfgVars, sinkErrors, current, pc, loc, sink, rulesCalls, clipboard,
                 callsLeft, panicked>>

\* ------------------------------------------------------------------ controller

SessionReasonRecordingStarted               == "recording_started"
SessionReasonRecordingRestarted             == "recording_restarted"
SessionReasonTranscribing                   == "transcribing"
SessionReasonTranscriptCopied               == "transcript_copied"
SessionReasonTranscriptReadyClipboardFailed == "transcript_clipboard_failed"
SessionReasonRecordingDiscarded             == "recording_discarded"
SessionReasonNoTranscript                   == "no_transcript"
SessionReasonTranscriptionFailed            == "transcription_failed"
SessionReasonRulesFailed                    == "rules_failed"

\* ports.RulesEngine.Apply on success: some deterministic rewriting of the text
rulesOutput(raw) == <<"#">> \o raw

\* a call returns
Return(c, l) ==
  /\ pc' = [pc EXCEPT ![c] = "idle"]
  /\ loc' = [loc EXCEPT ![c] = [l EXCEPT !.returned = TRUE]]

\* the session a caller's stopSession works on: Start's previous, Abort's active
Target(c) == IF loc[c].op = "Start" THEN loc[c].prev ELSE loc[c].act

\* Start, lines 57-68: take the current session out under the lock
Start(c) ==
  /\ Alive
  /\ pc[c] = "idle"
  /\ callsLeft > 0
  /\ callsLeft' = callsLeft - 1
  /\ current' = 0
  /\ loc' = [loc EXCEPT ![c] = [Begin("Start") EXCEPT !.prev = current]]
  /\ pc' = [pc EXCEPT ![c] = IF current # 0 THEN "ss_cancel" ELSE "st_stream"]
  /\ UNCHANGED <<cfgVars, sinkErrors, sess, sink, rulesCalls, clipboard, panicked>>

\* a call of another caller is still working on session i
InUse(c, i) == \E d \in Callers \ {c} : pc[d] # "idle" /\ loc[d].act = i

\* stopSession: active.cancel()
stopSessionCancel(c) ==
  /\ Alive
  /\ pc[c] = "ss_cancel"
  /\ sess' = [sess EXCEPT ![Target(c)].cancelled = TRUE]
  /\ pc' = [pc EXCEPT ![c] = "ss_audio"]
  /\ UNCHANGED <<cfgVars, sinkErrors, current, loc, sink, rulesCalls, clipboard,
                 callsLeft, panicked>>

\* a stopSession that leaves the capture source running: a faulty variant
stopSessionAudioSkipped(c) ==
  /\ Alive
  /\ pc[c] = "ss_audio"
  /\ pc' = [pc EXCEPT ![c] = "ss_close"]
  /\ UNCHANGED <<cfgVars, sinkErrors, current, sess, loc, sink, rulesCalls, clipboard,
                 callsLeft, panicked>>

\* stopSession: _ = active.audio.Stop(); what Stop returns (stopErr: an error)
\* is discarded
stopSessionAudioStop(c) ==
  /\ Alive
  /\ pc[c] = "ss_audio"
  /\ \E failed \in BOOLEAN :
       sess' = [sess EXCEPT ![Target(c)].audio.stopped = TRUE,
                            ![Target(c)].audio.stopCalls = @ + 1,
                            ![Target(c)].audio.stopErr = failed]
  /\ pc' = [pc EXCEPT ![c] = "ss_close"]
  /\ UNCHANGED <<cfgVars, sinkErrors, current, loc, sink, rulesCalls, clipboard,
                 callsLeft, panicked>>

\* stopSession: _ = active.stream.Close(), up to Close's wait for done
stopSessionClose(c) ==
  /\ Alive
  /\ pc[c] = "ss_close"
  /\ sess' = [sess EXCEPT ![Target(c)].stream = Close(@)]
  /\ pc' = [pc EXCEPT ![c] = "ss_join"]
  /\ UNCHANGED <<cfgVars, sinkErrors, current, loc, sink, rulesCalls, clipboard,
                 callsLeft, panicked>>

\* a stopSession that does not wait for the two tasks: a faulty variant
stopSessionJoinEarly(c) ==
  /\ Alive
  /\ pc[c] = "ss_join"
  /\ Terminated(sess[Target(c)].stream)
  /\ IF loc[c].op = "Start"
     THEN /\ pc' = [pc EXCEPT ![c] = "st_stream"]
          /\ loc' = loc
          /\ sess' = [sess EXCEPT ![Target(c)] = IF InUse(c, Target(c)) THEN @ ELSE released(@)]
     ELSE /\ pc' = [pc EXCEPT ![c] = "fin_set"]
          /\ loc' = [loc EXCEPT ![c].state = Idle,
                                ![c].reason = SessionReasonRecordingDiscarded]
          /\ sess' = sess
  /\ UNCHANGED <<cfgVars, sinkErrors, current, sink, rulesCalls, clipboard,
                 callsLeft, panicked>>

\* stopSession: Close returns, then <-eventsDone and <-audioDone (three waits in
\* a row on conditions that stay true once true); Start goes on to acquire,
\* Abort to finishSession(Idle, recording_discarded)
stopSessionJoin(c) ==
  /\ Alive
  /\ pc[c] = "ss_join"
  /\ Terminated(sess[Target(c)].stream)
  /\ sess[Target(c)].eventsDone
  /\ sess[Target(c)].audioDone
  /\ IF loc[c].op = "Start"
     THEN /\ pc' = [pc EXCEPT ![c] = "st_stream"]
          /\ loc' = loc
          /\ sess' = [sess EXCEPT ![Target(c)] = IF InUse(c, Target(c)) THEN @ ELSE released(@)]
     ELSE /\ pc' = [pc EXCEPT ![c] = "fin_set"]
          /\ loc' = [loc EXCEPT ![c].state = Idle,
                                ![c].reason = SessionReasonRecordingDiscarded]
          /\ sess' = sess
  /\ UNCHANGED <<cfgVars, sinkErrors, current, sink, rulesCalls, clipboard,
                 callsLeft, panicked>>

\* Start, lines 70-75: context.WithCancel and provider.StartStreaming; on an
\* error the scope is cancelled and the error returned
StartStreaming(c) ==
  /\ Alive
  /\ pc[c] = "st_stream"
  /\ \/ /\ \E stream \in IF provider = "deepgram" THEN {newStreamingSession}
                         ELSE {newFakeStreamingSession(evs, e) :
                                 evs \in Preloads,
                                 e \in {Nil, Err("stream failed", 0)}} :
             sess' = Append(sess, newSlot(stream))
        /\ pc' = [pc EXCEPT ![c] = "st_audio"]
        /\ loc' = [loc EXCEPT ![c].act = Len(sess) + 1]
     \/ /\ sess' = Append(sess, [newSlot(noStream) EXCEPT !.cancelled = TRUE])
        /\ Return(c, [loc[c] EXCEPT !.act = Len(sess) + 1,
                                    !.err = Err("streaming open failed", 0)])
  /\ UNCHANGED <<cfgVars, sinkErrors, current, sink, rulesCalls, clipboard,
                 callsLeft, panicked>>

\* Start, lines 77-92: audio.Start; on success the activeSession is built, on
\* an error the streaming session is closed (lines 79-81 go on in startRollback)
StartAudio(c) ==
  /\ Alive
  /\ pc[c] = "st_audio"
  /\ \/ /\ sess' = [sess EXCEPT ![loc[c].act].audio.open = TRUE,
                                ![loc[c].act].state = Recording]
        /\ pc' = [pc EXCEPT ![c] = "st_install"]
     \/ /\ sess' = [sess EXCEPT ![loc[c].act].stream = Close(@)]
        /\ pc' = [pc EXCEPT ![c] = "st_rollback"]
  /\ UNCHANGED <<cfgVars, sinkErrors, current, loc, sink, rulesCalls, clipboard,
                 callsLeft, panicked>>

\* Start, lines 79-81: stream.Close() has returned; cancel() and return the error
startRollback(c) ==
  /\ Alive
  /\ pc[c] = "st_rollback"
  /\ Terminated(sess[loc[c].act].stream)
  /\ sess' = [sess EXCEPT ![loc[c].act] = released([@ EXCEPT !.cancelled = TRUE])]
  /\ Return(c, [loc[c] EXCEPT !.err = Err("audio open failed", 0)])
  /\ UNCHANGED <<cfgVars, sinkErrors, current, sink, rulesCalls, clipboard,
                 callsLeft, panicked>>

\* Start, lines 94-96: c.current = active under the lock
startInstall(c) ==
  /\ Alive
  /\ pc[c] = "st_install"
  /\ current' = loc[c].act
  /\ pc' = [pc EXCEPT ![c] = "st_go"]
  /\ UNCHANGED <<cfgVars, sinkErrors, sess, loc, sink, rulesCalls, clipboard,
                 callsLeft, panicked>>

\* Start, lines 98-99: the two background tasks are launched
startLaunch(c) ==
  /\ Alive
  /\ pc[c] = "st_go"
  /\ sess' = [sess EXCEPT ![loc[c].act].consumer = "run", ![loc[c].act].pump = "read"]
  /\ pc' = [pc EXCEPT ![c] = "st_publish"]
  /\ UNCHANGED <<cfgVars, sinkErrors, current, loc, sink, rulesCalls, clipboard,
                 callsLeft, panicked>>

\* Start, lines 101-106: the Recording state is published and Start returns
startPublish(c) ==
  /\ Alive
  /\ pc[c] = "st_publish"
  /\ sink' = SessionStateChanged(Recording,
               IF loc[c].prev # 0 THEN SessionReasonRecordingRestarted
               ELSE SessionReasonRecordingStarted, loc[c].act)
  /\ Return(c, loc[c])
  /\ UNCHANGED <<cfgVars, sinkErrors, current, sess, rulesCalls, clipboard,
                 callsLeft, panicked>>

\* a getCurrent whose failure is not returned: a faulty variant
noActiveSessionIgnored(c, op) ==
  /\ current = 0
  /\ Return(c, Begin(op))
  /\ UNCHANGED <<sess, sink>>

\* getCurrent failing: Stop and Abort return ErrNoActiveSession
noActiveSession(c, op) ==
  /\ current = 0
  /\ Return(c, [Begin(op) EXCEPT !.err = ErrNoActiveSession])
  /\ UNCHANGED <<sess, sink>>

\* Stop, lines 111-117: getCurrent, then setState(Stopping) and its publication
Stop(c) ==
  /\ Alive
  /\ pc[c] = "idle"
  /\ callsLeft > 0
  /\ callsLeft' = callsLeft - 1
  /\ \/ noActiveSession(c, "Stop")
     \/ /\ current # 0
        /\ loc' = [loc EXCEPT ![c] = [Begin("Stop") EXCEPT !.act = current]]
        /\ sess' = [sess EXCEPT ![current].state = Stopping]
        /\ sink' = SessionStateChanged(Stopping, SessionReasonTranscribing, current)
        /\ pc' = [pc EXCEPT ![c] = "sp_audio"]
  /\ UNCHANGED <<cfgVars, sinkErrors, current, rulesCalls, clipboard, panicked>>

\* a Stop that discards the error of active.audio.Stop(): a faulty variant
stopAudioStopSilent(c) ==
  /\ Alive
  /\ pc[c] = "sp_audio"
  /\ \E failed \in BOOLEAN :
       sess' = [sess EXCEPT ![loc[c].act].audio.stopped = TRUE,
                            ![loc[c].act].audio.stopCalls = @ + 1,
                            ![loc[c].act].audio.stopErr = failed]
  /\ pc' = [pc EXCEPT ![c] = IF graceOn THEN "sp_grace" ELSE "sp_closesend"]
  /\ UNCHANGED <<cfgVars, sinkErrors, current, loc, callsLeft, sink, outVars, panicked>>

\* a Stop that never waits for the grace period: a faulty variant
stopAudioStopNoGrace(c) ==
  /\ Alive
  /\ pc[c] = "sp_audio"
  /\ \E failed \in BOOLEAN :
       /\ sess' = [sess EXCEPT ![loc[c].act].audio.stopped = TRUE,
                               ![loc[c].act].audio.stopCalls = @ + 1,
                               ![loc[c].act].audio.stopErr = failed]
       /\ sinkErrors' = IF failed THEN SessionError(ErrorCodeAudioStop, loc[c].act)
                        ELSE sinkErrors
  /\ pc' = [pc EXCEPT ![c] = "sp_closesend"]
  /\ UNCHANGED <<cfgVars, current, loc, callsLeft, sink, outVars, panicked>>

\* Stop, lines 119-121: active.audio.Stop(); its error is only reported
stopAudioStop(c) ==
  /\ Alive
  /\ pc[c] = "sp_audio"
  /\ \E failed \in BOOLEAN :
       /\ sess' = [sess EXCEPT ![loc[c].act].audio.stopped = TRUE,
                               ![loc[c].act].audio.stopCalls = @ + 1,
                               ![loc[c].act].audio.stopErr = failed]
       /\ sinkErrors' = IF failed THEN SessionError(ErrorCodeAudioStop, loc[c].act)
                        ELSE sinkErrors
  /\ pc' = [pc EXCEPT ![c] = IF graceOn THEN "sp_grace" ELSE "sp_closesend"]
  /\ UNCHANGED <<cfgVars, current, loc, callsLeft, sink, outVars, panicked>>

\* Stop, lines 123-130: the grace timer fires, or the caller's context is done
stopGrace(c) ==
  /\ Alive
  /\ pc[c] = "sp_grace"
  /\ pc' = [pc EXCEPT ![c] = "sp_closesend"]
  /\ UNCHANGED <<cfgVars, sinkErrors, current, sess, loc, sink, rulesCalls, clipboard,
                 callsLeft, panicked>>

\* Stop, line 132: _ = active.stream.CloseSend()
stopCloseSend(c) ==
  /\ Alive
  /\ pc[c] = "sp_closesend"
  /\ sess' = [sess EXCEPT ![loc[c].act].stream = CloseSend(@)]
  /\ pc' = [pc EXCEPT ![c] = "sp_wait"]
  /\ UNCHANGED <<cfgVars, sinkErrors, current, loc, sink, rulesCalls, clipboard,
                 callsLeft, panicked>>

\* waitForStream, case <-time.After(timeout): session.Close(), then <-done
waitForStreamTimeout(c) ==
  /\ Alive
  /\ pc[c] = "sp_wait"
  /\ ~loc[c].timedOut
  /\ sess' = [sess EXCEPT ![loc[c].act].stream = Close(@)]
  /\ loc' = [loc EXCEPT ![c].timedOut = TRUE]
  /\ UNCHANGED <<cfgVars, sinkErrors, current, pc, sink, rulesCalls, clipboard,
                 callsLeft, panicked>>

\* a waitForStream that returns without waiting for Wait: a faulty variant
waitForStreamAtOnce(c) ==
  /\ Alive
  /\ pc[c] = "sp_wait"
  /\ loc' = [loc EXCEPT ![c].streamErr = waitErr(sess[loc[c].act].stream)]
  /\ pc' = [pc EXCEPT ![c] = "sp_join"]
  /\ UNCHANGED <<cfgVars, sinkErrors, current, sess, sink, rulesCalls, clipboard,
                 callsLeft, panicked>>

\* waitForStream returns what session.Wait() returned
waitForStream(c) ==
  /\ Alive
  /\ pc[c] = "sp_wait"
  /\ Terminated(sess[loc[c].act].stream)
  /\ loc' = [loc EXCEPT ![c].streamErr = waitErr(sess[loc[c].act].stream)]
  /\ pc' = [pc EXCEPT ![c] = "sp_join"]
  /\ UNCHANGED <<cfgVars, sinkErrors, current, sess, sink, rulesCalls, clipboard,
                 callsLeft, panicked>>

\* Stop, lines 134-146: both tasks are joined, the transcript is reconciled; an
\* empty one ends the call through finishSession, with the stream error if any
stopReconcile(c) ==
  /\ Alive
  /\ pc[c] = "sp_join"
  /\ sess[loc[c].act].eventsDone
  /\ sess[loc[c].act].audioDone
  /\ LET raw == Raw(sess[loc[c].act].aggregator)
         streamErr == loc[c].streamErr IN
     IF raw = EmptyText /\ streamErr # Nil
     THEN /\ sinkErrors' = SessionError(ErrorCodeTranscription, loc[c].act)
          /\ loc' = [loc EXCEPT ![c].raw = raw, ![c].state = ErrorSt,
                                ![c].reason = SessionReasonTranscriptionFailed,
                                ![c].err = streamErr]
          /\ pc' = [pc EXCEPT ![c] = "fin_set"]
     ELSE IF raw = EmptyText
     THEN /\ sinkErrors' = sinkErrors
          /\ loc' = [loc EXCEPT ![c].raw = raw, ![c].state = Idle,
                                ![c].reason = SessionReasonNoTranscript,
                                ![c].err = ErrNoTranscript]
          /\ pc' = [pc EXCEPT ![c] = "fin_set"]
     ELSE /\ sinkErrors' = sinkErrors
          /\ loc' = [loc EXCEPT ![c].raw = raw]
          /\ pc' = [pc EXCEPT ![c] = "sp_finalize"]
  /\ UNCHANGED <<cfgVars, current, callsLeft, sess, sink, outVars, panicked>>

\* a Finalize that reports the transcript as copied whatever SetText returns,
\* and one that goes on to the clipboard after a rules failure: faulty variants
FinalizeCopiedAlways(c) ==
  /\ Alive
  /\ pc[c] = "sp_finalize"
  /\ \/ /\ rulesCalls' = Append(rulesCalls, [text |-> loc[c].raw, ok |-> FALSE])
        /\ sinkErrors' = SessionError(ErrorCodeRules, loc[c].act)
        /\ clipboard' = clipboard
        /\ loc' = [loc EXCEPT ![c].state = ErrorSt, ![c].reason = SessionReasonRulesFailed,
                              ![c].err = Err("rules failed", 0)]
        /\ pc' = [pc EXCEPT ![c] = "fin_set"]
     \/ /\ rulesCalls' = Append(rulesCalls, [text |-> loc[c].raw, ok |-> TRUE])
        /\ \E copied \in BOOLEAN :
             /\ clipboard' = Append(clipboard, [text |-> rulesOutput(loc[c].raw),
                                                ok |-> copied])
             /\ sinkErrors' = sinkErrors
             /\ loc' = [loc EXCEPT
                          ![c].result = StopResult(loc[c].raw, rulesOutput(loc[c].raw), TRUE),
                          ![c].state = Idle,
                          ![c].reason = SessionReasonTranscriptCopied]
        /\ pc' = [pc EXCEPT ![c] = "sp_final"]
  /\ UNCHANGED <<cfgVars, current, callsLeft, sess, sink, panicked>>

FinalizeIgnoresRules(c) ==
  /\ Alive
  /\ pc[c] = "sp_finalize"
  /\ \E ok \in BOOLEAN :
       /\ rulesCalls' = Append(rulesCalls, [text |-> loc[c].raw, ok |-> ok])
       /\ clipboard' = Append(clipboard, [text |-> loc[c].raw, ok |-> TRUE])
       /\ sinkErrors' = sinkErrors
       /\ loc' = [loc EXCEPT
                    ![c].result = StopResult(loc[c].raw, loc[c].raw, TRUE),
                    ![c].state = Idle,
                    ![c].reason = SessionReasonTranscriptCopied]
  /\ pc' = [pc EXCEPT ![c] = "sp_final"]
  /\ UNCHANGED <<cfgVars, current, callsLeft, sess, sink, panicked>>

\* transcriptFinalizer.Finalize: rules.Apply, then clipboard.SetText
Finalize(c) ==
  /\ Alive
  /\ pc[c] = "sp_finalize"
  /\ \/ /\ rulesCalls' = Append(rulesCalls, [text |-> loc[c].raw, ok |-> FALSE])
        /\ sinkErrors' = SessionError(ErrorCodeRules, loc[c].act)
        /\ clipboard' = clipboard
        /\ loc' = [loc EXCEPT ![c].state = ErrorSt, ![c].reason = SessionReasonRulesFailed,
                              ![c].err = Err("rules failed", 0)]
        /\ pc' = [pc EXCEPT ![c] = "fin_set"]
     \/ /\ rulesCalls' = Append(rulesCalls, [text |-> loc[c].raw, ok |-> TRUE])
        /\ \E copied \in BOOLEAN :
             /\ clipboard' = Append(clipboard, [text |-> rulesOutput(loc[c].raw),
                                                ok |-> copied])
             /\ sinkErrors' = IF copied THEN sinkErrors
                              ELSE SessionError(ErrorCodeClipboard, loc[c].act)
             /\ loc' = [loc EXCEPT
                          ![c].result = StopResult(loc[c].raw, rulesOutput(loc[c].raw), copied),
                          ![c].state = Idle,
                          ![c].reason = IF copied THEN SessionReasonTranscriptCopied
                                        ELSE SessionReasonTranscriptReadyClipboardFailed]
        /\ pc' = [pc EXCEPT ![c] = "sp_final"]
  /\ UNCHANGED <<cfgVars, current, callsLeft, sess, sink, panicked>>

\* Stop, line 154: the final transcript is published
stopFinalTranscript(c) ==
  /\ Alive
  /\ pc[c] = "sp_final"
  /\ sink' = FinalTranscript(loc[c].result.raw, loc[c].result.final, loc[c].act)
  /\ pc' = [pc EXCEPT ![c] = "fin_set"]
  /\ UNCHANGED <<cfgVars, sinkErrors, current, sess, loc, rulesCalls, clipboard,
                 callsLeft, panicked>>

\* Abort, lines 161-166: getCurrent, then stopSession
Abort(c) ==
  /\ Alive
  /\ pc[c] = "idle"
  /\ callsLeft > 0
  /\ callsLeft' = callsLeft - 1
  /\ \/ noActiveSession(c, "Abort")
     \/ /\ current # 0
        /\ loc' = [loc EXCEPT ![c] = [Begin("Abort") EXCEPT !.act = current]]
        /\ pc' = [pc EXCEPT ![c] = "ss_cancel"]
        /\ UNCHANGED <<sess, sink>>
  /\ UNCHANGED <<cfgVars, sinkErrors, current, rulesCalls, clipboard, panicked>>

\* finishSession, lines 200-201: active.cancel() and active.setState(state)
finishSessionSetState(c) ==
  /\ Alive
  /\ pc[c] = "fin_set"
  /\ sess' = [sess EXCEPT ![loc[c].act].cancelled = TRUE,
                          ![loc[c].act].state = loc[c].state]
  /\ pc' = [pc EXCEPT ![c] = "fin_clear"]
  /\ UNCHANGED <<cfgVars, sinkErrors, current, loc, sink, rulesCalls, clipboard,
                 callsLeft, panicked>>

\* a finishSession that clears the reference whatever it refers to: a faulty
\* variant
finishSessionClearAlways(c) ==
  /\ Alive
  /\ pc[c] = "fin_clear"
  /\ current' = 0
  /\ pc' = [pc EXCEPT ![c] = "fin_publish"]
  /\ UNCHANGED <<cfgVars, sinkErrors, sess, loc, sink, rulesCalls, clipboard,
                 callsLeft, panicked>>

\* finishSession, lines 203-207: the reference is cleared if it is still this session
finishSessionClear(c) ==
  /\ Alive
  /\ pc[c] = "fin_clear"
  /\ current' = IF current = loc[c].act THEN 0 ELSE current
  /\ pc' = [pc EXCEPT ![c] = "fin_publish"]
  /\ UNCHANGED <<cfgVars, sinkErrors, sess, loc, sink, rulesCalls, clipboard,
                 callsLeft, panicked>>

\* finishSession, line 209: the terminal state is published; Stop or Abort returns
finishSessionPublish(c) ==
  /\ Alive
  /\ pc[c] = "fin_publish"
  /\ sink' = SessionStateChanged(loc[c].state, loc[c].reason, loc[c].act)
  /\ Return(c, loc[c])
  /\ UNCHANGED <<cfgVars, sinkErrors, current, sess, rulesCalls, clipboard,
                 callsLeft, panicked>>

\* a Status that calls a session active only while it records: a faulty variant
StatusRecordingOnly ==
  IF current = 0 THEN [state |-> Idle, active |-> FALSE]
  ELSE [state |-> sess[current].state, active |-> sess[current].state = Recording]

\* Status
Status ==
  IF current = 0 THEN [state |-> Idle, active |-> FALSE]
  ELSE [state |-> sess[current].state, active |-> sess[current].state # Idle]

\* ------------------------------------------------------------------ rules

\* engine.go line 35
DefaultLoopLimit == 30

\* the characters \w matches, among those the texts of the model are made of
WordChars == {"a", "b", "c", "f", "o", "r", "x", "A", "B"}
IsWord(ch) == ch \in WordChars

\* case folding, (?i), on these characters
Lower(ch) == IF ch = "A" THEN "a" ELSE IF ch = "B" THEN "b" ELSE ch

\* the characters regexp.QuoteMeta escapes, among those of the model
MetaChars == {"."}

\* regexp.QuoteMeta: the pattern source, token by token, with every
\* metacharacter escaped
QuoteMeta(from) ==
  [k \in DOMAIN from |-> IF from[k] \in MetaChars THEN "\\" \o from[k] ELSE from[k]]

\* regexp.Compile on a pattern source given token by token: a character, ".",
\* an escaped metacharacter, \b or \B; prefixFlags is the "(?i)" prefix
Compile(prefixFlags, source) ==
  [fold |-> "i" \in prefixFlags,
   atoms |-> [k \in DOMAIN source |->
                IF source[k] = "." THEN [t |-> "any", ch |-> "."]
                ELSE IF source[k] = "\\b" THEN [t |-> "b", ch |-> ""]
                ELSE IF source[k] = "\\B" THEN [t |-> "B", ch |-> ""]
                ELSE IF source[k] = "\\." THEN [t |-> "lit", ch |-> "."]
                ELSE [t |-> "lit", ch |-> source[k]]]]

\* an ASCII word boundary at offset p of t: \w on one side, \W or an end of
\* the text on the other
Boundary(t, p) ==
  (p >= 1 /\ IsWord(t[p])) # (p < Len(t) /\ IsWord(t[p + 1]))

NoMatch == -1

\* where a match of the atoms that begins at offset p of t ends, or NoMatch
RECURSIVE MatchEnd(_, _, _, _)
MatchEnd(atoms, fold, t, p) ==
  IF atoms = << >> THEN p
  ELSE LET a == Head(atoms) IN
       IF a.t = "b" THEN (IF Boundary(t, p) THEN MatchEnd(Tail(atoms), fold, t, p)
                          ELSE NoMatch)
       ELSE IF a.t = "B" THEN (IF ~Boundary(t, p) THEN MatchEnd(Tail(atoms), fold, t, p)
                               ELSE NoMatch)
       ELSE IF p >= Len(t) THEN NoMatch
       ELSE IF a.t = "any" THEN MatchEnd(Tail(atoms), fold, t, p + 1)
       ELSE IF (IF fold THEN Lower(t[p + 1]) = Lower(a.ch) ELSE t[p + 1] = a.ch)
            THEN MatchEnd(Tail(atoms), fold, t, p + 1)
       ELSE NoMatch

\* the leftmost match at or after offset pos: <<start, end>>, or << >>
FindFrom(re, t, pos) ==
  LET starts == {p \in pos .. Len(t) : MatchEnd(re.atoms, re.fold, t, p) # NoMatch} IN
  IF starts = {} THEN << >>
  ELSE LET p == CHOOSE q \in starts : \A o \in starts : q <= o IN
       <<p, MatchEnd(re.atoms, re.fold, t, p)>>

\* Regexp.FindStringIndex
FindStringIndex(re, t) == FindFrom(re, t, 0)

\* Regexp.ReplaceAllString: every match, left to right, none overlapping (a
\* pattern of the model matches at least one character); from[pos] is the
\* text from offset pos on with its matches replaced
ReplaceAllString(re, t, repl) ==
  LET from[pos \in 0 .. Len(t)] ==
        LET found == FindFrom(re, t, pos) IN
        IF found = << >> THEN SubSeq(t, pos + 1, Len(t))
        ELSE SubSeq(t, pos + 1, found[1]) \o repl \o from[found[2]]
  IN from[0]

\* a literal rule whose source is compiled as it stands: a faulty variant
parseLiteralRuleUnquoted(from, to) ==
  [kind |-> "literal", re |-> Compile({"i"}, from), replacement |-> to, global |-> TRUE]

\* parseLiteralRule, from and to being the trimmed sides of "=>"
parseLiteralRule(from, to) ==
  [kind |-> "literal", re |-> Compile({"i"}, QuoteMeta(from)), replacement |-> to,
   global |-> TRUE]

\* parseRegexRule, the line being s/pattern/replacement/flags: matching is
\* case-insensitive whatever the flags
parseRegexRule(pattern, replacement, flags) ==
  [kind |-> "regex", re |-> Compile({"i"}, pattern), replacement |-> replacement,
   global |-> "g" \in flags]

\* a literalRule that never reports a change: a faulty variant
literalRuleApplyUnchanged(r, input) ==
  [output |-> ReplaceAllString(r.re, input, r.replacement), changed |-> FALSE]

\* literalRule.Apply
literalRuleApply(r, input) ==
  LET output == ReplaceAllString(r.re, input, r.replacement) IN
  [output |-> output, changed |-> output # input]

\* regexRule.Apply: without the global flag the leftmost match is cut out and
\* the pattern is applied to that segment alone
regexRuleApply(r, input) ==
  IF r.global
  THEN LET output == ReplaceAllString(r.re, input, r.replacement) IN
       [output |-> output, changed |-> output # input]
  ELSE LET first(found) ==
             IF found = << >> THEN [output |-> input, changed |-> FALSE]
             ELSE LET segment == SubSeq(input, found[1] + 1, found[2])
                      replaced == ReplaceAllString(r.re, segment, r.replacement)
                      output == SubSeq(input, 1, found[1]) \o replaced
                                \o SubSeq(input, found[2] + 1, Len(input)) IN
                  [output |-> output, changed |-> output # input]
       IN \* loc is computed once, then used
          CHOOSE out \in {first(found) : found \in {FindStringIndex(r.re, input)}} : TRUE

\* compiledRule.Apply
ruleApply(r, input) ==
  IF r.kind = "literal" THEN literalRuleApply(r, input) ELSE regexRuleApply(r, input)

\* no Engine under study
noEngine ==
  [rules |-> << >>, configured |-> 0, loopLimit |-> 0, text |-> << >>, result |-> << >>, i |-> 0, k |-> 0,
   changed |-> FALSE, last |-> [output |-> << >>, changed |-> FALSE],
   pc |-> "off", exit |-> "none"]

\* NewEngineWithParsers, lines 34-36 and 58, and a call Apply(text) about to run
NewEngine(rules, loopLimit, text) ==
  [noEngine EXCEPT !.rules = rules, !.configured = loopLimit,
                   !.loopLimit = IF loopLimit <= 0 THEN DefaultLoopLimit ELSE loopLimit,
                   !.text = text, !.pc = "call"]

\* Engine.Apply, lines 63-68: no rules, or the first pass begins
ApplyBegin ==
  /\ engine.pc = "call"
  /\ engine' = IF Len(engine.rules) = 0
               THEN [engine EXCEPT !.result = engine.text, !.pc = "done", !.exit = "norules"]
               ELSE [engine EXCEPT !.result = engine.text, !.i = 0, !.k = 1,
                                   !.changed = FALSE, !.pc = "pass"]
  /\ UNCHANGED <<provider, graceOn, ctlVars, sess, sink, sinkErrors, outVars, panicked>>

\* Engine.Apply, lines 70-76: the next rule of the pass
ApplyRule ==
  /\ engine.pc = "pass"
  /\ engine.k <= Len(engine.rules)
  /\ LET out == ruleApply(engine.rules[engine.k], engine.result) IN
     engine' = [engine EXCEPT !.last = out,
                              !.result = IF out.changed THEN out.output ELSE @,
                              !.changed = @ \/ out.changed,
                              !.k = @ + 1]
  /\ UNCHANGED <<provider, graceOn, ctlVars, sess, sink, sinkErrors, outVars, panicked>>

\* a loop without its limit: a faulty variant
limitReachedNever(e) == FALSE

\* Engine.Apply, line 68: i < e.loopLimit fails after this pass
limitReached(e) == e.i + 1 >= e.loopLimit

\* Engine.Apply, lines 77-82 and 68: the pass ends; Apply returns when nothing
\* changed or the limit is reached, else the next pass begins
ApplyEndPass ==
  /\ engine.pc = "pass"
  /\ engine.k > Len(engine.rules)
  /\ engine' = IF ~engine.changed
               THEN [engine EXCEPT !.i = @ + 1, !.pc = "done", !.exit = "stable"]
               ELSE IF limitReached(engine)
               THEN [engine EXCEPT !.i = @ + 1, !.pc = "done", !.exit = "limit"]
               ELSE [engine EXCEPT !.i = @ + 1, !.k = 1, !.changed = FALSE]
  /\ UNCHANGED <<provider, graceOn, ctlVars, sess, sink, sinkErrors, outVars, panicked>>

\* ------------------------------------------------------------------ specifications

Init ==
  /\ provider \in {"deepgram", "fake"}
  /\ graceOn \in BOOLEAN
  /\ current = 0
  /\ sess = << >>
  /\ pc = [c \in Callers |-> "idle"]
  /\ loc = [c \in Callers |-> noLocals]
  /\ sink = << >>
  /\ sinkErrors = << >>
  /\ rulesCalls = << >>
  /\ clipboard = << >>
  /\ callsLeft = MaxCalls
  /\ panicked = FALSE
  /\ engine = noEngine

\* a step of one caller's Start, Stop or Abort
Call(c) ==
  \/ Start(c) \/ stopSessionCancel(c) \/ stopSessionAudioStop(c) \/ stopSessionClose(c)
  \/ stopSessionJoin(c) \/ StartStreaming(c) \/ StartAudio(c) \/ startRollback(c)
  \/ startInstall(c) \/ startLaunch(c) \/ startPublish(c)
  \/ Stop(c) \/ stopAudioStop(c) \/ stopGrace(c) \/ stopCloseSend(c)
  \/ waitForStreamTimeout(c) \/ waitForStream(c) \/ stopReconcile(c) \/ Finalize(c)
  \/ stopFinalTranscript(c)
  \/ Abort(c) \/ finishSessionSetState(c) \/ finishSessionClear(c)
  \/ finishSessionPublish(c)

\* a step of one of a session's two background tasks, up to SendAudio's select
Tasks(i) ==
  \/ pumpRead(i) \/ pumpSendAudio(i) \/ consumeEvent(i) \/ consumeClosed(i)

\* a step of one of a Deepgram session's goroutines, or of a SendAudio that has
\* reached its select
Loops(i) ==
  \/ pumpEnqueue(i) \/ pumpSendDone(i)
  \/ readLoopMessage(i) \/ readLoopProviderError(i) \/ readLoopReadError(i)
  \/ writeLoopChunk(i) \/ writeLoopCloseStream(i)
  \/ closerCloseEvents(i) \/ closerCloseDone(i) \/ contextWatcher(i)

\* one caller: the controller's calls come one after the other
Next == (\E i \in Sids : Tasks(i) \/ Loops(i)) \/ Call("c1")

Spec == Init /\ [][Next]_vars

\* callers on different goroutines, whose calls may overlap, on a controller
\* built with the in-memory provider and a grace period
InitPar == Init /\ provider = "fake" /\ graceOn

NextPar == (\E i \in Sids : Tasks(i)) \/ (\E c \in Callers : Call(c))

SpecPar == InitPar /\ [][NextPar]_vars

\* ------------------------------------------------------------------ C1

\* a streaming session on which Close has not been called and that has not terminated
StreamOpen(st) ==
  IF st.kind = "fake" THEN st.closeCalls = 0 ELSE ~st.closeOnce /\ ~st.done

\* a session whose capture source and streaming session are both still open,
\* with both of its background tasks running
Live(i) ==
  /\ sess[i].audio.open /\ ~sess[i].audio.stopped
  /\ StreamOpen(sess[i].stream)
  /\ sess[i].pump \notin {"off", "done"}
  /\ sess[i].consumer = "run"

\* C1: under every interleaving of Start, Stop and Abort calls, overlapping
\* calls of different callers included, there are never two sessions whose
\* capture source and streaming session are both still open with their
\* background tasks running.
C1_AtMostOneLiveSession ==
  \A i, j \in Sids : Live(i) /\ Live(j) => i = j

\* ------------------------------------------------------------------ C2

\* the state changes the sink received, in order
RECURSIVE StateChanges(_)
StateChanges(log) ==
  IF log = << >> THEN << >>
  ELSE (IF Head(log).kind = "state" THEN <<<<Head(log).a, Head(log).b>>>> ELSE << >>)
       \o StateChanges(Tail(log))

\* the error events published for session i
ErrorCodes(i) == {sinkErrors[k].code : k \in {n \in DOMAIN sinkErrors : sinkErrors[n].sid = i}}

\* c's last call was a Stop on an active session, and it has returned
StopReturned(c) ==
  /\ pc[c] = "idle" /\ loc[c].returned /\ loc[c].op = "Stop" /\ loc[c].act # 0

\* a Start followed by a Stop and no other call, the stream having delivered
\* one Partial and then one Final, rules and clipboard having succeeded
C2_Case ==
  /\ StopReturned("c1")
  /\ callsLeft = MaxCalls - 2
  /\ Len(sess[loc["c1"].act].received) = 2
  /\ sess[loc["c1"].act].received[1].kind = Partial
  /\ sess[loc["c1"].act].received[2].kind = Final
  /\ ErrorCodes(loc["c1"].act) \cap {ErrorCodeRules, ErrorCodeClipboard} = {}

\* what C2 says of the sink: the three state changes in order, the partial
\* before the final transcript, the final transcript before the terminal state
C2_SinkOrder(raw) ==
  /\ StateChanges(sink) = << <<Recording, SessionReasonRecordingStarted>>,
                             <<Stopping, SessionReasonTranscribing>>,
                             <<Idle, SessionReasonTranscriptCopied>> >>
  /\ \E i, j \in DOMAIN sink :
       /\ i < j /\ j < Len(sink)
       /\ sink[i].kind = "partial"
       /\ sink[j] = [kind |-> "final", a |-> raw, b |-> rulesOutput(raw), sid |-> loc["c1"].act]
       /\ sink[Len(sink)].kind = "state"
       /\ \A k \in DOMAIN sink : sink[k].kind = "final" => k = j

\* C2 as stated: Start then Stop, one Partial then one Final, rules and
\* clipboard succeeding: the sink sees Recording/recording_started,
\* Stopping/transcribing, Idle/transcript_copied in order, the partial before
\* the final transcript and that before the terminal state, and Stop returns
\* StopResult{raw = the Final's text, final = the rules output, copied = true}.
C2_RawIsTheFinalsText ==
  C2_Case =>
    LET raw == sess[loc["c1"].act].received[2].text IN
    /\ C2_SinkOrder(raw)
    /\ loc["c1"].err = Nil
    /\ loc["c1"].result = StopResult(raw, rulesOutput(raw), TRUE)

\* C2, amended: the same, with raw = the Final's text trimmed of surrounding
\* white space when that is not empty, and the Partial's trimmed text when
\* the Final's text is blank.
C2_RawIsTheTrimmedFinal ==
  C2_Case =>
    LET final == TrimSpace(sess[loc["c1"].act].received[2].text)
        raw == IF final # EmptyText THEN final
               ELSE TrimSpace(sess[loc["c1"].act].received[1].text) IN
    /\ C2_SinkOrder(raw)
    /\ loc["c1"].err = Nil
    /\ loc["c1"].result = StopResult(raw, rulesOutput(raw), TRUE)

\* C2's case, reached with a Final whose text has white space around it
C2_Witness ==
  /\ C2_Case
  /\ sess[loc["c1"].act].received[2].text = T_padb
  /\ loc["c1"].result.raw = <<"b">>

\* ------------------------------------------------------------------ C3

\* only Partial events, and at least one, were received
OnlyPartials(received) ==
  /\ received # << >>
  /\ \A k \in DOMAIN received : received[k].kind = Partial

\* Stop neither returned the stream error nor published it
StreamErrorNotSurfaced(c) ==
  /\ loc[c].streamErr # Nil => loc[c].err # loc[c].streamErr
  /\ ErrorCodeTranscription \notin ErrorCodes(loc[c].act)

\* Stop returned a StopResult built from raw and left the session Idle
EndsIdleWith(c, raw) ==
  /\ loc[c].err = Nil
  /\ loc[c].result.raw = raw /\ loc[c].result.final = rulesOutput(raw)
  /\ loc[c].state = Idle /\ sess[loc[c].act].state = Idle
  /\ sink[Len(sink)].kind = "state" /\ sink[Len(sink)].a = Idle

\* the stream ended with an error after delivering only Partial events
C3_PartialOnlyCase ==
  /\ StopReturned("c1")
  /\ OnlyPartials(sess[loc["c1"].act].received)
  /\ loc["c1"].streamErr # Nil

\* C3 as stated: a non-empty reconciled transcript makes Stop invoke the
\* finalizer and not surface the stream error; when the stream ended with an
\* error and only Partials were received, Stop returns a StopResult built from
\* the last partial and ends in Idle.
C3_PartialOnlyEndsIdle ==
  /\ StopReturned("c1") /\ loc["c1"].raw # EmptyText =>
       /\ Len(rulesCalls) = loc["c1"].rules0 + 1
       /\ StreamErrorNotSurfaced("c1")
  /\ C3_PartialOnlyCase =>
       LET received == sess[loc["c1"].act].received IN
       EndsIdleWith("c1", TrimSpace(received[Len(received)].text))

\* C3, amended: the same, unless the rules engine fails: then Stop returns the
\* rules error with an empty StopResult and the session ends in Error.
C3_FinalizerDecides ==
  /\ StopReturned("c1") /\ loc["c1"].raw # EmptyText =>
       /\ Len(rulesCalls) = loc["c1"].rules0 + 1
       /\ StreamErrorNotSurfaced("c1")
  /\ C3_PartialOnlyCase =>
       LET received == sess[loc["c1"].act].received
           raw == TrimSpace(received[Len(received)].text) IN
       /\ loc["c1"].raw = raw
       /\ IF ErrorCodeRules \in ErrorCodes(loc["c1"].act)
          THEN /\ loc["c1"].err = Err("rules failed", 0)
               /\ loc["c1"].result = EmptyResult
               /\ loc["c1"].state = ErrorSt /\ sess[loc["c1"].act].state = ErrorSt
          ELSE EndsIdleWith("c1", raw)

\* a Deepgram session failed after one partial, and Stop returned its text
C3_Witness ==
  /\ C3_PartialOnlyCase
  /\ provider = "deepgram"
  /\ loc["c1"].result.raw = T_a
  /\ loc["c1"].state = Idle

\* ------------------------------------------------------------------ C4

\* what the sink received since c's last call began
SinceCall(c) == SubSeq(sink, loc[c].mark + 1, Len(sink))

\* the error events with this code published for session i
ErrorEvents(code, i) ==
  {k \in DOMAIN sinkErrors : sinkErrors[k] = [code |-> code, sid |-> i]}

\* neither the rules engine nor the clipboard was called during c's last call
NoRulesNoClipboard(c) ==
  /\ Len(rulesCalls) = loc[c].rules0
  /\ Len(clipboard) = loc[c].clip0

\* no final-transcript event was published during c's last call
NoFinalTranscript(c) ==
  \A k \in DOMAIN SinceCall(c) : SinceCall(c)[k].kind # "final"

\* Stop returned; the session's transcript reconciles to nothing and its Wait
\* reports an error
C4_Case ==
  /\ StopReturned("c1")
  /\ Raw(sess[loc["c1"].act].aggregator) = EmptyText
  /\ sess[loc["c1"].act].stream.err # Nil

\* C4: with an empty reconciled transcript and an error from Wait, Stop
\* publishes one transcription error event and the terminal state
\* Error/transcription_failed, returns exactly that stream error with an empty
\* StopResult, and calls neither the rules engine nor the clipboard.
C4_EmptyWithStreamError ==
  C4_Case =>
    /\ Cardinality(ErrorEvents(ErrorCodeTranscription, loc["c1"].act)) = 1
    /\ StateChanges(SinceCall("c1")) =
         << <<Stopping, SessionReasonTranscribing>>,
            <<ErrorSt, SessionReasonTranscriptionFailed>> >>
    /\ sink[Len(sink)].kind = "state"
    /\ sess[loc["c1"].act].state = ErrorSt
    /\ loc["c1"].err = sess[loc["c1"].act].stream.err
    /\ loc["c1"].result = EmptyResult
    /\ NoRulesNoClipboard("c1")
    /\ NoFinalTranscript("c1")

\* a Deepgram session that failed without a transcript, and Stop has returned
C4_Witness ==
  /\ C4_Case
  /\ provider = "deepgram"
  /\ loc["c1"].err = Err("failed to read provider event: io", 0)

\* ------------------------------------------------------------------ C5

\* Stop returned; the session's transcript reconciles to nothing and its Wait
\* reports no error
C5_Case ==
  /\ StopReturned("c1")
  /\ Raw(sess[loc["c1"].act].aggregator) = EmptyText
  /\ sess[loc["c1"].act].stream.err = Nil

\* what C5 says besides the error events: Idle/no_transcript, the
\* "no transcript captured" error, an empty StopResult, no final transcript,
\* no rules, no clipboard
C5_Outcome ==
  /\ StateChanges(SinceCall("c1")) =
       << <<Stopping, SessionReasonTranscribing>>,
          <<Idle, SessionReasonNoTranscript>> >>
  /\ sink[Len(sink)].kind = "state"
  /\ sess[loc["c1"].act].state = Idle
  /\ loc["c1"].err = ErrNoTranscript
  /\ loc["c1"].result = EmptyResult
  /\ NoRulesNoClipboard("c1")
  /\ NoFinalTranscript("c1")

\* the error events Stop itself publishes (the pump publishes audio_stream)
StopErrorCodes ==
  {ErrorCodeAudioStop, ErrorCodeTranscription, ErrorCodeRules, ErrorCodeClipboard}

\* C5 as stated: with an empty reconciled transcript and no stream error, Stop
\* publishes Idle/no_transcript, returns the "no transcript captured" error
\* with an empty StopResult, publishes no error event and no final
\* transcript, and calls neither the rules engine nor the clipboard.
C5_NoErrorEvent ==
  C5_Case =>
    /\ C5_Outcome
    /\ ErrorCodes(loc["c1"].act) \cap StopErrorCodes = {}

\* C5, amended: the same, except that the only error event Stop may publish
\* is audio_stop, when the capture source's Stop failed.
C5_NoTranscriptionErrorEvent ==
  C5_Case =>
    /\ C5_Outcome
    /\ ErrorCodes(loc["c1"].act) \cap StopErrorCodes \subseteq {ErrorCodeAudioStop}

\* an in-memory session with nothing to say and no error, stopped
C5_Witness ==
  /\ C5_Case
  /\ provider = "fake"
  /\ loc["c1"].reason = SessionReasonNoTranscript
  /\ ErrorCodes(loc["c1"].act) = {}

\* ------------------------------------------------------------------ C6

\* c's last call was a Start, and it returned an error
StartFailed(c) ==
  /\ pc[c] = "idle" /\ loc[c].returned /\ loc[c].op = "Start" /\ loc[c].err # Nil

\* what a failed Start leaves behind
C6_AfterFailedStart ==
  StartFailed("c1") =>
    LET s == sess[loc["c1"].act] IN
    /\ loc["c1"].err = IF s.stream.kind = "none" THEN Err("streaming open failed", 0)
                       ELSE Err("audio open failed", 0)
    /\ s.stream.kind # "none" => ~StreamOpen(s.stream) /\ Terminated(s.stream)
    /\ s.stream.kind = "fake" => s.stream.closeCalls = 1
    /\ s.cancelled
    /\ ~s.audio.open /\ s.pump = "off" /\ s.consumer = "off"
    /\ StateChanges(SinceCall("c1")) = << >>
    /\ current = 0
    /\ Status = [state |-> Idle, active |-> FALSE]

\* a Stop that begins after a failed Start returns ErrNoActiveSession at once
C6_StopAfterFailedStart ==
  StartFailed("c1") /\ loc'["c1"].op = "Stop" =>
    /\ pc'["c1"] = "idle"
    /\ loc'["c1"].err = ErrNoActiveSession
    /\ loc'["c1"].result = EmptyResult

\* C6: when StartStreaming fails, or audio.Start fails after it, Start returns
\* that error, the streaming session that was opened is closed, the session
\* scope is cancelled, no background task is launched and no state change is
\* published; afterwards Status reports Idle/inactive and Stop fails with
\* ErrNoActiveSession.
C6_FailedStartLeavesNothing ==
  []C6_AfterFailedStart /\ [][C6_StopAfterFailedStart]_vars

\* a Start on a Deepgram session whose capture could not be opened has
\* returned, the session closed behind it
C6_Witness ==
  /\ StartFailed("c1")
  /\ loc["c1"].err = Err("audio open failed", 0)
  /\ sess[loc["c1"].act].stream.kind = "deepgram"
  /\ sess[loc["c1"].act].stream.done

\* ------------------------------------------------------------------ C7

\* session i has been force-stopped: scope cancelled, capture stopped, streaming
\* session closed (a Deepgram one terminated), both background tasks exited
Stopped(i) ==
  /\ sess[i].cancelled
  /\ sess[i].audio.stopped /\ sess[i].audio.stopCalls >= 1
  /\ ~StreamOpen(sess[i].stream)
  /\ sess[i].stream.kind = "deepgram" => sess[i].stream.done /\ sess[i].stream.connClosed
  /\ sess[i].pump = "done" /\ sess[i].audioDone
  /\ sess[i].consumer = "done" /\ sess[i].eventsDone

\* c's last call was a Start that found a session, and it returned no error
RestartReturned(c) ==
  /\ pc[c] = "idle" /\ loc[c].returned /\ loc[c].op = "Start"
  /\ loc[c].prev # 0 /\ loc[c].err = Nil

\* the steps of a restarting Start that acquire the new streaming session (and
\* with it the session scope) or capture session, or make the new session the
\* active one, are taken with the prior session force-stopped
C7_StoppedBeforeAcquired ==
  /\ pc["c1"] # "idle" /\ loc["c1"].op = "Start" /\ loc["c1"].prev # 0
  /\ \/ Len(sess') > Len(sess)
     \/ pc["c1"] = "st_audio" /\ pc'["c1"] # "st_audio"
     \/ current' # current
  => /\ Stopped(loc["c1"].prev)
     /\ sess[loc["c1"].prev].state = Recording

\* the restarted session is the active one, published as Recording/recording_restarted
C7_PublishedRestarted ==
  RestartReturned("c1") =>
    /\ Stopped(loc["c1"].prev)
    /\ current = loc["c1"].act /\ loc["c1"].act # loc["c1"].prev
    /\ StateChanges(SinceCall("c1")) = << <<Recording, SessionReasonRecordingRestarted>> >>
    /\ \E k \in DOMAIN sink :
         /\ k > loc["c1"].mark
         /\ sink[k] = [kind |-> "state", a |-> Recording,
                       b |-> SessionReasonRecordingRestarted, sid |-> loc["c1"].act]

\* C7: when Start is called while a session is Recording, the prior session's
\* scope is cancelled, its capture stopped, its streaming session closed and
\* both its tasks exited before the new streaming and capture sessions are
\* acquired and before the second session becomes the active one; Recording
\* is published for the new session with reason recording_restarted.
C7_RestartStopsPrevious ==
  []C7_PublishedRestarted /\ [][C7_StoppedBeforeAcquired]_vars

\* a Start has replaced a Recording Deepgram session and returned
C7_Witness ==
  /\ RestartReturned("c1")
  /\ provider = "deepgram"
  /\ Live(current)

\* ------------------------------------------------------------------ C8

\* a Stop or an Abort of c1 begins, with no active session
C8_Case ==
  /\ pc["c1"] = "idle" /\ callsLeft' = callsLeft - 1
  /\ loc'["c1"].op \in {"Stop", "Abort"}
  /\ current = 0

\* the call returns ErrNoActiveSession in that step and leaves everything else
\* as it was
C8_Step ==
  C8_Case =>
    /\ pc'["c1"] = "idle" /\ loc'["c1"].returned
    /\ loc'["c1"].err = ErrNoActiveSession
    /\ loc'["c1"].result = EmptyResult
    /\ sink' = sink /\ sinkErrors' = sinkErrors
    /\ sess' = sess
    /\ rulesCalls' = rulesCalls /\ clipboard' = clipboard
    /\ current' = 0
    /\ Status' = [state |-> Idle, active |-> FALSE]

\* C8: Stop and Abort called with no active session fail with
\* ErrNoActiveSession and change nothing: no state change and no error event
\* is published, capture, stream, rules and clipboard are not called, and
\* Status still reports Idle/inactive.
C8_NoActiveSession == [][C8_Step]_vars

\* an Abort found no session, after an earlier Start had failed
C8_Witness ==
  /\ pc["c1"] = "idle" /\ loc["c1"].returned
  /\ loc["c1"].op = "Abort" /\ loc["c1"].act = 0
  /\ loc["c1"].err = ErrNoActiveSession
  /\ Len(sess) = 1 /\ sess[1].cancelled

\* ------------------------------------------------------------------ C9

\* c's last call was an Abort on an active session, and it has returned
AbortReturned(c) ==
  /\ pc[c] = "idle" /\ loc[c].returned /\ loc[c].op = "Abort" /\ loc[c].act # 0

\* what Abort has done when it returns
C9_AfterAbort ==
  AbortReturned("c1") =>
    /\ Stopped(loc["c1"].act)
    /\ StateChanges(SinceCall("c1")) = << <<Idle, SessionReasonRecordingDiscarded>> >>
    /\ sink[Len(sink)] = [kind |-> "state", a |-> Idle,
                          b |-> SessionReasonRecordingDiscarded, sid |-> loc["c1"].act]
    /\ loc["c1"].err = Nil
    /\ loc["c1"].raw = EmptyText /\ loc["c1"].result = EmptyResult
    /\ NoRulesNoClipboard("c1")
    /\ NoFinalTranscript("c1")
    /\ ErrorCodes(loc["c1"].act) \cap StopErrorCodes = {}
    /\ sess[loc["c1"].act].state = Idle
    /\ current = 0
    /\ Status = [state |-> Idle, active |-> FALSE]

\* Abort publishes its state change with the session force-stopped
C9_StoppedBeforePublished ==
  /\ pc["c1"] # "idle" /\ loc["c1"].op = "Abort"
  /\ Len(sink') > Len(sink) /\ sink'[Len(sink')].kind = "state"
  => Stopped(loc["c1"].act)

\* C9: Abort on an active session cancels its scope, stops capture, closes the
\* streaming session and joins both tasks, then publishes exactly one state
\* change, Idle/recording_discarded, and returns no error; it never
\* reconciles the transcript, runs the rules, writes the clipboard or
\* publishes a final transcript; afterwards Status reports Idle/inactive.
C9_AbortDiscards ==
  []C9_AfterAbort /\ [][C9_StoppedBeforePublished]_vars

\* an Abort has returned on a session that had a transcript to reconcile
C9_Witness ==
  /\ AbortReturned("c1")
  /\ Raw(sess[loc["c1"].act].aggregator) # EmptyText
  /\ sess[loc["c1"].act].stream.kind = "deepgram"

\* ------------------------------------------------------------------ C10

\* the goroutines of session i, each of which the Go scheduler keeps running
\* while it can take a step
Pump(i) ==
  i \in Sids /\ (pumpRead(i) \/ pumpSendAudio(i) \/ pumpEnqueue(i) \/ pumpSendDone(i))
Consumer(i) == i \in Sids /\ (consumeEvent(i) \/ consumeClosed(i))
WriteLoop(i) == i \in Sids /\ (writeLoopChunk(i) \/ writeLoopCloseStream(i))
Closer(i) == i \in Sids /\ (closerCloseEvents(i) \/ closerCloseDone(i))
Watcher(i) == i \in Sids /\ contextWatcher(i)

\* a read on a connection that has been closed fails: the streaming session
\* terminates once it is closed
ClosedRead(i) == i \in Sids /\ sess[i].stream.connClosed /\ readLoopReadError(i)

\* a call that has begun keeps running (and the timer of waitForStream fires)
Running1 == pc["c1"] # "idle" /\ Call("c1")

\* the remote side is under no obligation: it may never send a message and
\* never close the stream
Fairness ==
  /\ WF_vars(Running1)
  /\ \A i \in 1 .. MaxCalls :
       /\ WF_vars(Pump(i)) /\ WF_vars(Consumer(i)) /\ WF_vars(WriteLoop(i))
       /\ WF_vars(Closer(i)) /\ WF_vars(Watcher(i)) /\ WF_vars(ClosedRead(i))

\* a controller built with the Deepgram provider and a grace period
InitLive == Init /\ provider = "deepgram" /\ graceOn

SpecLive == InitLive /\ [][Next]_vars /\ Fairness

\* c1 is inside a Stop or an Abort on an active session
InStopOrAbort == pc["c1"] # "idle" /\ loc["c1"].op \in {"Stop", "Abort"}

\* c1's Stop or Abort on an active session has returned
StopOrAbortReturned == StopReturned("c1") \/ AbortReturned("c1")

\* when it has returned, both tasks have exited and the reference is cleared
C10_AfterReturn ==
  StopOrAbortReturned =>
    /\ sess[loc["c1"].act].pump = "done" /\ sess[loc["c1"].act].audioDone
    /\ sess[loc["c1"].act].consumer = "done" /\ sess[loc["c1"].act].eventsDone
    /\ current = 0

\* C10: every Stop and every Abort on an active session eventually returns,
\* also when the remote side never completes the stream, when the send loop
\* has failed and when the pump is blocked in SendAudio; when it returns, both
\* background tasks have exited and the active-session reference is cleared.
C10_StopAndAbortReturn ==
  /\ InStopOrAbort ~> StopOrAbortReturned
  /\ []C10_AfterReturn

\* a Stop has returned although the remote side never completed the stream:
\* waitForStream timed out and closed the session
C10_Witness ==
  /\ StopReturned("c1")
  /\ loc["c1"].timedOut
  /\ sess[loc["c1"].act].stream.kind = "deepgram"
  /\ sess[loc["c1"].act].stream.err = Err("failed to read provider event: io", 0)

\* ------------------------------------------------------------------ C11

\* session i was created by a Start that got both its streaming session and
\* its capture session
Created(i) == sess[i].state # "none"

\* the call that ended session i has returned: a Stop or an Abort that acted
\* on it, or a Start that found it active
EndedBy(c, i) ==
  /\ pc[c] = "idle" /\ loc[c].returned
  /\ \/ loc[c].op \in {"Stop", "Abort"} /\ loc[c].act = i
     \/ loc[c].op = "Start" /\ loc[c].prev = i

\* the capture source of session i has been stopped by exactly one Stop call
\* and its streaming session has terminated, its event channel having been
\* closed exactly once
ReleasedOnce(i) ==
  /\ sess[i].audio.stopped /\ sess[i].audio.stopCalls = 1
  /\ sess[i].stream.eventsClosed /\ sess[i].stream.eventsCloses = 1
  /\ sess[i].stream.kind = "deepgram" =>
       /\ sess[i].stream.done /\ sess[i].stream.connClosed
       /\ sess[i].stream.sendClosed /\ sess[i].stream.audioCloses = 1

InFlight(i) == sess[i].pump = "enqueue"

\* C12: Close and CloseSend on a streaming session are safe to call while a
\* SendAudio is in flight, whether it is between its closed check and its
\* enqueue or blocked on a full queue: closing the send side never leads to a
\* send on the closed queue, which is a panic.
C12_NoSendOnClosedQueue == ~panicked

\* the send side of a Deepgram session has been closed while a SendAudio was
\* in flight
C12_Witness ==
  \E i \in Sids :
    /\ sess[i].stream.kind = "deepgram"
    /\ InFlight(i) /\ sess[i].stream.sendClosed

\* ------------------------------------------------------------------ C13

\* the SendAudio of session i that stands at its select was called after the
\* session had recorded an error or terminated
LateSend(i) == InFlight(i) /\ sess[i].sendLate

\* the SendAudio in flight in session i returns nil, its chunk queued
Enqueued(i) ==
  /\ sess'[i].pump = "read"
  /\ sess'[i].stream.audio = sess[i].stream.audio + 1

\* C13: once the send side of a streaming session has been closed, or the
\* session has failed or terminated, every SendAudio called afterwards with a
\* non-empty chunk returns an error and enqueues no audio.
C13_LateSendAudioFails ==
  [][\A i \in Sids :
       /\ sess[i].pump = "send" /\ sess[i].stream.sendClosed
            => sess'[i].pump \in {"send", "done"}
                 /\ sess'[i].stream.audio <= sess[i].stream.audio
       /\ LateSend(i) => ~Enqueued(i)]_vars

\* a SendAudio called on a session that had failed, its send side still open,
\* stands at its select with room in the audio queue
C13_Witness ==
  \E i \in Sids :
    /\ LateSend(i) /\ ~sess[i].stream.sendClosed
    /\ sess[i].stream.audio < AudioCap

\* ------------------------------------------------------------------ C14

\* the Events channel of a session is closed at most once, and that of a
\* Deepgram session only when both loops have exited and before done is closed
C14_ClosedAfterLoops ==
  \A i \in Sids :
    LET st == sess[i].stream IN
    /\ st.eventsCloses = IF st.eventsClosed /\ st.kind # "none" THEN 1 ELSE 0
    /\ st.kind = "deepgram" =>
         /\ st.eventsClosed => st.readLoop = "done" /\ st.writeLoop = "done"
         /\ st.done => st.eventsClosed

\* an event is put on the Events channel of session i
Emitted(i) == Len(sess'[i].stream.events) > Len(sess[i].stream.events)

\* no event is put on a closed Events channel, a closed channel stays closed,
\* and the channel is closed when Wait (in waitForStream) or Close (in
\* stopSession) returns to the controller
C14_Step ==
  /\ \A i \in Sids :
       /\ Emitted(i) => ~sess[i].stream.eventsClosed /\ ~sess[i].stream.done
       /\ sess[i].stream.eventsClosed => sess'[i].stream.eventsClosed
  /\ pc["c1"] = "sp_wait" /\ pc'["c1"] = "sp_join"
       => sess[loc["c1"].act].stream.eventsClosed
  /\ pc["c1"] = "ss_join" /\ pc'["c1"] # "ss_join"
       => sess[Target("c1")].stream.eventsClosed

\* C14: when Wait or Close on a streaming session returns, the Events channel
\* has already been closed and no event is emitted afterwards; the channel is
\* closed exactly once, only after both the send loop and the receive loop
\* have exited, so no emit targets a closed channel.
C14_EventsClosedBeforeReturn ==
  []C14_ClosedAfterLoops /\ [][C14_Step]_vars

\* Wait has returned to Stop on a Deepgram session that had emitted an event
C14_Witness ==
  /\ pc["c1"] = "sp_join"
  /\ sess[loc["c1"].act].stream.kind = "deepgram"
  /\ sess[loc["c1"].act].received # << >>
  /\ sess[loc["c1"].act].stream.eventsClosed

\* ------------------------------------------------------------------ C15

\* the normal-closure conditions a read can end with
NormalClosures == {e \in ReadErrors : IsCloseError(e)}

\* what a session holds when it has recorded the condition e, as such or as
\* the cause of a loop's error
RecordsOf(e) == {e, Wrap("failed to read provider event", e)}

\* no session holds a normal-closure condition as its error
C15_NoNormalClosure ==
  \A i \in Sids : \A e \in NormalClosures : sess[i].stream.err \notin RecordsOf(e)

\* this step drops session i, nothing referring to it any more
Dropped(i) ==
  /\ pc["c1"] \in {"ss_join", "st_rollback"} /\ pc'["c1"] # pc["c1"]
  /\ sess'[i] = released(sess'[i])

\* a recorded error stays as it is while the session is in use, and Wait hands
\* the recorded error (or none) to waitForStream
C15_Step ==
  /\ \A i \in Sids :
       sess[i].stream.err # Nil =>
         sess'[i].stream.err = sess[i].stream.err \/ Dropped(i)
  /\ pc["c1"] = "sp_wait" /\ pc'["c1"] = "sp_join"
       => loc'["c1"].streamErr = sess[loc["c1"].act].stream.err

\* C15: a streaming session records at most one terminal error: a recorded
\* error is never overwritten by a later error of either loop, the
\* normal-closure conditions (normal closure, going away, no status received)
\* are never recorded, and Wait and Close return exactly the recorded error
\* (or none).
C15_OneTerminalError ==
  []C15_NoNormalClosure /\ [][C15_Step]_vars

\* the first-error-wins and return-value parts on their own
C15_FirstErrorWins == [][C15_Step]_vars

\* the peer has closed a Deepgram session normally and Wait has returned to Stop
C15_Witness ==
  /\ pc["c1"] = "sp_join"
  /\ sess[loc["c1"].act].stream.kind = "deepgram"
  /\ loc["c1"].streamErr \in UNION {RecordsOf(e) : e \in NormalClosures}

\* ------------------------------------------------------------------ C16

\* on every session of the Deepgram provider the audio queue has been closed
\* at most once and the transport severed at most once, and a CloseSend or a
\* Close after a CloseSend or a Close changes nothing
C16_State ==
  \A i \in Sids :
    LET st == sess[i].stream IN
    st.kind = "deepgram" =>
      /\ st.audioCloses <= 1 /\ st.severs <= 1
      /\ st.audioCloses = (IF st.sendClosed THEN 1 ELSE 0)
      /\ st.severs = (IF st.closeOnce THEN 1 ELSE 0)
      /\ CloseSend(CloseSend(st)) = CloseSend(st)
      /\ Close(Close(st)) = Close(st)
      /\ CloseSend(Close(st)) = Close(st)
      /\ Close(CloseSend(st)).audioCloses = 1

\* this step is a call of Close on session i: by the context watcher, by
\* stopSession or by waitForStream's timeout
CloseCalled(i) ==
  \/ sess[i].stream.watcher = "wait" /\ sess'[i].stream.watcher = "done"
  \/ pc["c1"] = "ss_close" /\ pc'["c1"] = "ss_join" /\ Target("c1") = i
  \/ /\ pc["c1"] = "sp_wait" /\ loc["c1"].act = i
     /\ ~loc["c1"].timedOut /\ loc'["c1"].timedOut

\* a call of Close on a session that has been closed before leaves it as it
\* is, and one on a session whose send side has been closed closes no queue
C16_Step ==
  \A i \in Sids :
    LET st == sess[i].stream IN
    st.kind = "deepgram" /\ CloseCalled(i) =>
      /\ st.closeOnce => sess'[i].stream = [st EXCEPT !.watcher = sess'[i].stream.watcher]
      /\ st.sendClosed => sess'[i].stream.audioCloses = st.audioCloses
      /\ sess'[i].stream.closeOnce /\ sess'[i].stream.sendClosed

\* stopSession calls Close on a session that has been closed before and has
\* terminated: that call returns at once what Wait returns
FurtherCloseReturns(i) ==
  /\ pc["c1"] = "ss_close" /\ pc'["c1"] = "ss_join" /\ Target("c1") = i
  /\ sess[i].stream.kind = "deepgram"
  /\ sess[i].stream.closeOnce /\ sess[i].stream.done

\* a further call of Close returns no error
C16_FurtherCloseReturnsNil ==
  \A i \in Sids : FurtherCloseReturns(i) => waitErr(sess[i].stream) = Nil

\* C16 as stated: CloseSend and Close on a streaming session are idempotent:
\* after the first call, further calls return without error and have no
\* additional effect, the audio queue being closed once and the transport
\* severed once.
C16_IdempotentWithoutError ==
  []C16_State /\ [][C16_Step /\ C16_FurtherCloseReturnsNil]_vars

\* C16, amended: CloseSend and Close on a streaming session are idempotent in
\* their effect: after the first call, further calls change nothing, the audio
\* queue being closed once and the transport severed once; a further Close
\* returns the error the session has recorded, if any.
C16_Idempotent ==
  []C16_State /\ [][C16_Step]_vars

\* stopSession has called Close on a Deepgram session that the context watcher
\* had closed before
C16_Witness ==
  /\ pc["c1"] = "ss_join"
  /\ sess[Target("c1")].stream.kind = "deepgram"
  /\ sess[Target("c1")].stream.watcher = "done"
  /\ sess[Target("c1")].stream.severs = 1

\* ------------------------------------------------------------------ C17

\* the call of c that ended session i has returned, and in it the capture
\* source's Stop returned an error
StopFailedIn(c, i) == Created(i) /\ EndedBy(c, i) /\ sess[i].audio.stopErr

\* an Abort of c has returned, and in it the streaming session's Close
\* returned the error the session had recorded
CloseFailedIn(c, i) ==
  /\ AbortReturned(c) /\ loc[c].act = i
  /\ sess[i].stream.kind = "deepgram" /\ waitErr(sess[i].stream) # Nil

\* the terminal state c's call published, as the last state change of the call
PublishedLast(c, state, reason) ==
  LET changes == StateChanges(SinceCall(c)) IN
  changes # << >> /\ changes[Len(changes)] = <<state, reason>>

\* what c's call returned and published is what it returns and publishes
\* when nothing fails in stopping: Stop decides on the transcript, the stream
\* error, the rules and the clipboard; Abort returns nil and publishes
\* Idle/recording_discarded; a superseding Start returns nil once it has
\* acquired the new session
OutcomeAsWithoutFailure(c) ==
  LET l == loc[c] IN
  /\ l.op = "Abort" => l.err = Nil /\ PublishedLast(c, Idle, SessionReasonRecordingDiscarded)
  /\ l.op = "Start" => (l.err = Nil <=> Created(l.act) /\ current = l.act)
  /\ l.op = "Stop" =>
       LET raw == Raw(sess[l.act].aggregator) IN
       /\ PublishedLast(c, l.state, l.reason)
       /\ IF raw = EmptyText /\ l.streamErr # Nil
          THEN l.err = l.streamErr /\ l.state = ErrorSt
               /\ l.reason = SessionReasonTranscriptionFailed
          ELSE IF raw = EmptyText
          THEN l.err = ErrNoTranscript /\ l.state = Idle
               /\ l.reason = SessionReasonNoTranscript
          ELSE IF l.err # Nil
          THEN l.state = ErrorSt /\ l.reason = SessionReasonRulesFailed
          ELSE l.state = Idle /\ l.result.raw = raw
               /\ l.reason = IF l.result.copied THEN SessionReasonTranscriptCopied
                             ELSE SessionReasonTranscriptReadyClipboardFailed

C18_Case ==
  /\ StopReturned("c1")
  /\ Len(rulesCalls) = loc["c1"].rules0 + 1 /\ rulesCalls[Len(rulesCalls)].ok
  /\ Len(clipboard) = loc["c1"].clip0 + 1 /\ ~clipboard[Len(clipboard)].ok

\* the final-transcript events published during c's last call
FinalTranscripts(c) ==
  {k \in DOMAIN SinceCall(c) : SinceCall(c)[k].kind = "final"}

\* C18: when the rules succeed but the clipboard write fails at Stop, Stop
\* returns no error and a StopResult with raw = the reconciled transcript,
\* final = the rules output and copied = false; a clipboard error event and
\* the final-transcript event are published, and the terminal state is Idle
\* with the reason transcript-ready-clipboard-failed.
C18_ClipboardFailure ==
  C18_Case =>
    LET i == loc["c1"].act
        raw == Raw(sess[i].aggregator) IN
    /\ raw # EmptyText
    /\ loc["c1"].err = Nil
    /\ loc["c1"].result = StopResult(raw, rulesOutput(raw), FALSE)
    /\ rulesCalls[Len(rulesCalls)].text = raw
    /\ clipboard[Len(clipboard)].text = rulesOutput(raw)
    /\ Cardinality(ErrorEvents(ErrorCodeClipboard, i)) = 1
    /\ ErrorEvents(ErrorCodeRules, i) = {}
    /\ \E k \in DOMAIN SinceCall("c1") :
         /\ FinalTranscripts("c1") = {k}
         /\ SinceCall("c1")[k] = [kind |-> "final", a |-> raw, b |-> rulesOutput(raw),
                                  sid |-> i]
    /\ PublishedLast("c1", Idle, SessionReasonTranscriptReadyClipboardFailed)
    /\ sess[i].state = Idle /\ current = 0

\* a Stop whose clipboard write failed has returned, on a Deepgram session
C18_Witness ==
  /\ C18_Case
  /\ sess[loc["c1"].act].stream.kind = "deepgram"

\* ------------------------------------------------------------------ C19

\* Stop has returned; in it the rules engine was applied to a non-empty
\* transcript and failed
C19_Case ==
  /\ StopReturned("c1")
  /\ Len(rulesCalls) = loc["c1"].rules0 + 1 /\ ~rulesCalls[Len(rulesCalls)].ok
  /\ rulesCalls[Len(rulesCalls)].text # EmptyText

\* C19: when the rules engine fails on a non-empty transcript at Stop, a rules
\* error event is published, the clipboard is never written, no
\* final-transcript event is published, the terminal state is Error with the
\* reason rules-failed, and Stop returns the rules error with an empty
\* StopResult.
C19_RulesFailure ==
  C19_Case =>
    LET i == loc["c1"].act IN
    /\ rulesCalls[Len(rulesCalls)].text = Raw(sess[i].aggregator)
    /\ Cardinality(ErrorEvents(ErrorCodeRules, i)) = 1
    /\ ErrorEvents(ErrorCodeClipboard, i) = {}
    /\ Len(clipboard) = loc["c1"].clip0
    /\ FinalTranscripts("c1") = {}
    /\ PublishedLast("c1", ErrorSt, SessionReasonRulesFailed)
    /\ sess[i].state = ErrorSt /\ current = 0
    /\ loc["c1"].err = Err("rules failed", 0)
    /\ loc["c1"].result = EmptyResult

\* a Stop whose rules engine failed has returned, the transcript being the
\* last Partial alone
C19_Witness ==
  /\ C19_Case
  /\ OnlyPartials(sess[loc["c1"].act].received)

\* ------------------------------------------------------------------ C20

\* the aggregator on its own: every sequence of at most MaxAdds events is
\* added to a fresh aggregator, which is then reconciled
MaxAdds == 3

T_ab == <<"a", "b">>

\* the fragments of TestTranscriptAggregatorUsesFinalsAndLastSpokenFallback
T_hello == <<"h", "e", "l", "l", "o">>
T_world == <<"w", "o", "r", "l", "d">>
T_again == <<"a", "g", "a", "i", "n">>
T_helloWorld == Join(<<T_hello, T_world>>)
T_helloWorldAgain == Join(<<T_hello, T_world, T_again>>)

\* the events added: Partial and Final fragments of one and two characters,
\* padded and blank ones among them, and those of the test
AddInputs ==
  {Event(Partial, T_a), Event(Partial, T_ab), Event(Partial, T_blank),
   Event(Final, T_a), Event(Final, T_ab), Event(Final, T_padb),
   Event(Partial, T_hello), Event(Final, T_helloWorld),
   Event(Partial, T_helloWorldAgain)}

AddSequences == UNION {[1 .. n -> AddInputs] : n \in 0 .. MaxAdds}

\* a session's aggregator with the events still to be added to it
InitAgg ==
  /\ provider = "fake" /\ graceOn = FALSE
  /\ current = 0
  /\ \E evs \in AddSequences : sess = << newSlot(newFakeStreamingSession(evs, Nil)) >>
  /\ pc = [c \in Callers |-> "idle"]
  /\ loc = [c \in Callers |-> noLocals]
  /\ sink = << >> /\ sinkErrors = << >>
  /\ rulesCalls = << >> /\ clipboard = << >>
  /\ callsLeft = 0
  /\ panicked = FALSE
  /\ engine = noEngine

\* aggregator.Add(event) for the next event
AddNext ==
  /\ sess[1].stream.events # << >>
  /\ LET event == Head(sess[1].stream.events) IN
     sess' = [sess EXCEPT ![1].stream.events = Tail(@),
                          ![1].aggregator = Add(@, event),
                          ![1].received = Append(@, event)]
  /\ UNCHANGED <<cfgVars, ctlVars, sink, sinkErrors, outVars, panicked>>

\* raw := aggregator.Raw() once every event has been added
Reconcile ==
  /\ sess[1].stream.events = << >>
  /\ ~loc["c1"].returned
  /\ loc' = [loc EXCEPT !["c1"].raw = Raw(sess[1].aggregator), !["c1"].returned = TRUE]
  /\ UNCHANGED <<cfgVars, current, pc, callsLeft, sess, sink, sinkErrors, outVars, panicked>>

NextAgg == AddNext \/ Reconcile

SpecAgg == InitAgg /\ [][NextAgg]_vars

\* the non-empty trimmed fragments among the events added, in order
RECURSIVE Fragments(_)
Fragments(added) ==
  IF added = << >> THEN << >>
  ELSE (IF TrimSpace(Head(added).text) = EmptyText THEN << >>
        ELSE << [kind |-> Head(added).kind, text |-> TrimSpace(Head(added).text)] >>)
       \o Fragments(Tail(added))

\* the length of the longest of these fragments, 0 when there is none
Longest(frags) ==
  IF frags = << >> THEN 0
  ELSE CHOOSE n \in {Len(frags[k].text) : k \in DOMAIN frags} :
         \A k \in DOMAIN frags : Len(frags[k].text) <= n

FinalsOf(frags) == SelectSeq(frags, LAMBDA f : f.kind = Final)

\* C20 as stated: for every sequence of Add(event) calls, the text Raw returns
\* is never shorter than the longest non-empty trimmed fragment that was added.
C20_NotShorterThanLongest ==
  \A i \in Sids :
    Len(Raw(sess[i].aggregator)) >= Longest(Fragments(sess[i].received))

\* C20, amended: for every sequence of Add(event) calls, the text Raw returns
\* is never shorter than the longest non-empty trimmed Final fragment that was
\* added, nor than the last non-empty trimmed fragment that was added.
C20_NotShorterThanFinalsAndLast ==
  \A i \in Sids :
    LET frags == Fragments(sess[i].received)
        raw == Raw(sess[i].aggregator) IN
    /\ Len(raw) >= Longest(FinalsOf(frags))
    /\ frags # << >> => Len(raw) >= Len(frags[Len(frags)].text)
    /\ loc["c1"].returned => loc["c1"].raw = raw

\* a two-character Partial was added, then a shorter fragment, and the
\* aggregator has been reconciled
C20_Witness ==
  /\ loc["c1"].returned
  /\ Len(sess[1].received) >= 2
  /\ sess[1].received[1] = Event(Partial, T_ab)
  /\ Len(TrimSpace(sess[1].received[Len(sess[1].received)].text)) = 1

\* ------------------------------------------------------------------ C21

\* the texts of a sequence of fragments
Texts(frags) == [k \in DOMAIN frags |-> frags[k].text]

\* what reconciling is to return for the fragments added: with joined the
\* space-joined Final fragments and last the last fragment of any kind
Reconciled(frags) ==
  LET joined == Join(Texts(FinalsOf(frags)))
      last == IF frags = << >> THEN EmptyText ELSE frags[Len(frags)].text IN
  IF joined = EmptyText THEN last
  ELSE IF last = EmptyText \/ HasSuffix(joined, last) THEN joined
  ELSE IF Len(last) > Len(joined) THEN joined \o <<SP>> \o last
  ELSE joined

\* C21: with joined the space-joined final segments, Raw returns last-spoken
\* if joined is empty; joined if last-spoken is empty or joined already ends
\* with last-spoken; joined + " " + last-spoken if last-spoken is strictly
\* longer than joined; joined otherwise. Partial "hello", Final "hello world",
\* Partial "hello world again" yield "hello world hello world again", and a
\* single whitespace-only Partial yields "".
C21_RawDecisionTable ==
  \A i \in Sids :
    LET added == sess[i].received
        raw == Raw(sess[i].aggregator) IN
    /\ raw = Reconciled(Fragments(added))
    /\ added = <<Event(Partial, T_hello), Event(Final, T_helloWorld),
                 Event(Partial, T_helloWorldAgain)>>
         => raw = Join(<<T_hello, T_world, T_hello, T_world, T_again>>)
    /\ added = <<Event(Partial, T_blank)>> => raw = EmptyText

\* the three events of the test have been added and the aggregator reconciled
C21_Witness ==
  /\ loc["c1"].returned
  /\ sess[1].received = <<Event(Partial, T_hello), Event(Final, T_helloWorld),
                          Event(Partial, T_helloWorldAgain)>>
  /\ Len(loc["c1"].raw) = 29

\* ------------------------------------------------------------------ C22

\* the rules engine on its own: an Engine is built from a rule set and a
\* configured loop limit, and Apply runs on a text
T_b == <<"b">>
T_c == <<"c">>
T_foo == <<"f", "o", "o">>
T_bar == <<"b", "a", "r">>

\* a => b, b => c, b => a, a => aa, . => b
Rule_a_b  == parseLiteralRule(T_a, T_b)
Rule_b_c  == parseLiteralRule(T_b, T_c)
Rule_b_a  == parseLiteralRule(T_b, T_a)
Rule_a_aa == parseLiteralRule(T_a, <<"a", "a">>)
Rule_dot_b == parseLiteralRule(<<".">>, T_b)

\* s/foo/bar/, s/foo/bar/g, s/\Bfoo/bar/, s/./b/g
Rule_foo_bar   == parseRegexRule(T_foo, T_bar, {})
Rule_foo_bar_g == parseRegexRule(T_foo, T_bar, {"g"})
Rule_Bfoo_bar  == parseRegexRule(<<"\\B">> \o T_foo, T_bar, {})
Rule_any_b_g   == parseRegexRule(<<".">>, T_b, {"g"})

RulesChain   == <<Rule_a_b, Rule_b_c>>
RulesCycle   == <<Rule_a_b, Rule_b_a>>
RulesGrowing == <<Rule_a_aa>>

\* the rule files apart from the growing one
RuleSets ==
  {<< >>, RulesChain, RulesCycle, <<Rule_dot_b>>, <<Rule_foo_bar>>, <<Rule_foo_bar_g>>,
   <<Rule_Bfoo_bar>>, <<Rule_any_b_g>>}

\* the loop limit the growing rule is run with at most: the text doubles with
\* every pass
MaxGrowLimit == 3

\* rule files with the configured loop limit: unset or non-positive, or positive
EngineConfigs ==
  {<<rs, limit>> : rs \in RuleSets, limit \in {-1, 0, 2, 5}}
    \cup {<<RulesGrowing, limit>> : limit \in 1 .. MaxGrowLimit}

\* the texts Apply is given
RuleInputs ==
  {EmptyText, T_a, <<"A">>, <<"c", "a">>, <<"a", " ", "a">>, <<"a", ".", "a">>,
   Join(<<T_foo, T_foo>>), Join(<<<<"x">> \o T_foo, T_foo>>)}

InitRules ==
  /\ provider = "fake" /\ graceOn = FALSE
  /\ current = 0 /\ sess = << >>
  /\ pc = [c \in Callers |-> "idle"]
  /\ loc = [c \in Callers |-> noLocals]
  /\ sink = << >> /\ sinkErrors = << >>
  /\ rulesCalls = << >> /\ clipboard = << >>
  /\ callsLeft = 0
  /\ panicked = FALSE
  /\ \E cfg \in EngineConfigs : \E text \in RuleInputs :
       engine = NewEngine(cfg[1], cfg[2], text)

NextRules == ApplyBegin \/ ApplyRule \/ ApplyEndPass

SpecRules == InitRules /\ [][NextRules]_vars

\* the text after every rule has been applied once, in order, each to the
\* output of the one before
RECURSIVE PassOutput(_, _)
PassOutput(rules, t) ==
  IF rules = << >> THEN t
  ELSE PassOutput(Tail(rules), ruleApply(Head(rules), t).output)

\* C22: whenever Apply returns before the iteration limit is reached, its
\* result is a fixed point of the rule set: applying every rule once more in
\* file order leaves it unchanged. Within a pass each rule is applied to the
\* output of the previous rule, so a => b then b => c turn "a" into "c"; with
\* no rules loaded Apply returns its input unchanged.
C22_FixedPoint ==
  /\ engine.exit = "stable" =>
       /\ PassOutput(engine.rules, engine.result) = engine.result
       /\ \A k \in DOMAIN engine.rules :
            ruleApply(engine.rules[k], engine.result).output = engine.result
  /\ engine.pc = "pass" /\ engine.i = 0 /\ engine.k = Len(engine.rules) + 1
       => engine.result = PassOutput(engine.rules, engine.text)
  /\ engine.pc = "done" /\ engine.rules = RulesChain /\ engine.text = T_a
       => engine.result = T_c /\ engine.exit = "stable"
  /\ engine.exit = "norules" => engine.result = engine.text
  /\ engine.pc = "done" /\ engine.rules = << >> => engine.exit = "norules"

\* Apply has returned "c" for "a" under a => b, b => c, before the limit
C22_Witness ==
  /\ engine.exit = "stable" /\ engine.rules = RulesChain
  /\ engine.text = T_a /\ engine.result = T_c
  /\ engine.i = 2

\* ------------------------------------------------------------------ C23

\* Apply is one goroutine running a loop: it keeps taking steps
SpecRulesLive == SpecRules /\ WF_vars(NextRules)

\* the passes over the rules Apply has begun
PassesBegun == IF engine.pc = "pass" THEN engine.i + 1 ELSE engine.i

C23_Bounded ==
  /\ engine.loopLimit = IF engine.configured <= 0 THEN 30 ELSE engine.configured
  /\ PassesBegun <= engine.loopLimit
  /\ engine.exit = "limit" =>
       /\ engine.pc = "done" /\ engine.i = engine.loopLimit
       /\ engine.result = engine.last.output \/ ~engine.last.changed
  /\ engine.pc = "done" /\ engine.rules = RulesCycle /\ engine.text = T_a
       => engine.exit = "limit" /\ engine.result = T_a
  /\ engine.pc = "done" /\ engine.rules = RulesGrowing /\ engine.text = T_a
       => engine.exit = "limit" /\ Len(engine.result) = 2 ^ engine.loopLimit

\* C23: Apply performs at most loopLimit full passes over the rules (30 when
\* the configured limit is unset or non-positive) and then returns the current
\* text without error, so it terminates for every rule set, including cyclic
\* ones such as a => b with b => a and growing ones such as a => aa.
C23_Terminates == []C23_Bounded /\ <>(engine.pc = "done")

\* Apply has returned from the cyclic rules after the 30 passes of the default
\* limit
C23_Witness ==
  /\ engine.pc = "done" /\ engine.exit = "limit"
  /\ engine.rules = RulesCycle /\ engine.configured = 0
  /\ engine.i = 30 /\ engine.text = T_a

\* ------------------------------------------------------------------ C25

T_fooFoo == Join(<<T_foo, T_foo>>)
T_xfooFoo == Join(<<<<"x">> \o T_foo, T_foo>>)

\* the text with its leftmost match replaced and nothing else
ReplaceFirst(re, t, repl) ==
  LET found == FindStringIndex(re, t) IN
  IF found = << >> THEN t
  ELSE SubSeq(t, 1, found[1]) \o repl \o SubSeq(t, found[2] + 1, Len(t))

\* Apply applies the rule at e.k to e.result in this step
RuleApplied == engine.pc = "pass" /\ engine'.pc = "pass" /\ engine'.k = engine.k + 1

C25_Step ==
  RuleApplied =>
    LET r == engine.rules[engine.k]
        input == engine.result
        out == engine'.last IN
    r.kind = "regex" =>
      /\ out.changed = (out.output # input)
      /\ ~r.global => out.output = ReplaceFirst(r.re, input, r.replacement)
      /\ r.global => out.output = ReplaceAllString(r.re, input, r.replacement)
      /\ r = Rule_foo_bar /\ input = T_fooFoo => out.output = Join(<<T_bar, T_foo>>)
      /\ r = Rule_foo_bar_g /\ input = T_fooFoo => out.output = Join(<<T_bar, T_bar>>)

\* C25: a single application of a pattern rule without the global flag
\* replaces only the first (leftmost) match in the text and leaves every later
\* match untouched (s/foo/bar/ on "foo foo" yields "bar foo"), and reports
\* changed = true exactly when the output differs from the input; with the
\* global flag every match is replaced.
C25_FirstMatchOnly == [][C25_Step]_vars

\* the same for the patterns without \b or \B, whose matches do not depend on
\* the text around them
C25_StepContextFree ==
  RuleApplied /\ engine.rules[engine.k] # Rule_Bfoo_bar => C25_Step

C25_FirstMatchOnlyContextFree == [][C25_StepContextFree]_vars

\* s/\Bfoo/bar/ has been applied to "xfoo foo", whose leftmost match is the
\* "foo" after the x, and Apply has returned the text as it was
C25_Witness ==
  /\ engine.pc = "done" /\ engine.rules = <<Rule_Bfoo_bar>>
  /\ engine.text = T_xfooFoo
  /\ FindStringIndex(Rule_Bfoo_bar.re, engine.text) = <<1, 4>>
  /\ engine.result = engine.text /\ ~engine.last.changed

\* ------------------------------------------------------------------ C26

\* FROM occurs in t at offset p, letter case apart
Occurs(from, t, p) ==
  /\ p + Len(from) <= Len(t)
  /\ \A k \in 1 .. Len(from) : Lower(t[p + k]) = Lower(from[k])

\* t with every occurrence of FROM, letter case apart, replaced by TO, left to
\* right
RECURSIVE ReplaceOccurrences(_, _, _)
ReplaceOccurrences(from, to, t) ==
  IF t = << >> THEN t
  ELSE IF Occurs(from, t, 0)
       THEN to \o ReplaceOccurrences(from, to, SubSeq(t, Len(from) + 1, Len(t)))
       ELSE <<Head(t)>> \o ReplaceOccurrences(from, to, Tail(t))

\* the FROM a literal rule matches: the characters of its compiled pattern
FromOf(r) == [k \in DOMAIN r.re.atoms |-> r.re.atoms[k].ch]

\* FROM occurs in t at offset p as a whole term: no word character next to it
WholeTerm(from, t, p) ==
  /\ Occurs(from, t, p)
  /\ p = 0 \/ ~IsWord(t[p])
  /\ p + Len(from) = Len(t) \/ ~IsWord(t[p + Len(from) + 1])

C26_Literal(r, input, out) ==
  /\ \A k \in DOMAIN r.re.atoms : r.re.atoms[k].t = "lit"
  /\ r.re.fold
  /\ out.output = ReplaceOccurrences(FromOf(r), r.replacement, input)
  /\ out.changed = (out.output # input)
  /\ r = Rule_dot_b /\ input = <<"a", ".", "a">> => out.output = <<"a", "b", "a">>
  /\ r = Rule_a_b /\ input = <<"A">> => out.output = T_b

C26_Step ==
  RuleApplied /\ engine.rules[engine.k].kind = "literal"
    => C26_Literal(engine.rules[engine.k], engine.result, engine'.last)

\* C26, as the code has it: a literal rule FROM => TO replaces every
\* case-insensitive occurrence of FROM, with FROM's characters matched
\* literally (no metacharacter is interpreted), wherever FROM occurs, inside a
\* longer word too.
C26_EveryOccurrence == [][C26_Step]_vars

C26_StepWholeTerm ==
  RuleApplied /\ engine.rules[engine.k].kind = "literal" =>
    LET r == engine.rules[engine.k]
        input == engine.result
        out == engine'.last IN
    /\ C26_Literal(r, input, out)
    /\ (\A k \in DOMAIN FromOf(r) : IsWord(FromOf(r)[k]))
         /\ (\A p \in 0 .. Len(input) : ~WholeTerm(FromOf(r), input, p))
       => out.output = input /\ ~out.changed

\* C26: a literal rule FROM => TO replaces every case-insensitive occurrence
\* of FROM that is a whole term, with FROM's characters matched literally (no
\* metacharacter is interpreted), and does not rewrite text in which FROM
\* appears only as part of a longer word.
C26_WholeTermOnly == [][C26_StepWholeTerm]_vars

\* a => b has been applied to "ca" and has rewritten the a of the word
C26_Witness ==
  /\ engine.pc = "pass" /\ engine.rules = RulesChain /\ engine.i = 0 /\ engine.k = 2
  /\ engine.text = <<"c", "a">>
  /\ engine.result = <<"c", "b">> /\ engine.last.changed

\* ------------------------------------------------------------------ C24

\* the caller is inside Stop, between setState(Stopping) and the reconciliation
Draining(c) ==
  /\ loc[c].op = "Stop"
  /\ pc[c] \in {"sp_audio", "sp_grace", "sp_closesend", "sp_wait", "sp_join"}

\* the caller's last call was a Start that returned nil
Started(c) ==
  pc[c] = "idle" /\ loc[c].op = "Start" /\ loc[c].returned /\ loc[c].err = Nil

\* C24: Status returns Idle with active = false when there is no current
\* session, and otherwise the current session's state with active = (state #
\* Idle): after a successful Start it reports Recording/active, and while a
\* Stop is draining it reports Stopping/active. Status never waits for a
\* Start, Stop or Abort that is in progress: it has its answer in every state,
\* whichever step of a call the caller is at.
C24_Status ==
  /\ Status \in [state : {Idle, Recording, Stopping, ErrorSt}, active : BOOLEAN]
  /\ current = 0 => Status = [state |-> Idle, active |-> FALSE]
  /\ current # 0 => /\ Status.state = sess[current].state
                    /\ Status.active = (sess[current].state # Idle)
  /\ \A c \in Callers :
       /\ Started(c) => Status = [state |-> Recording, active |-> TRUE]
       /\ Draining(c) => Status = [state |-> Stopping, active |-> TRUE]

\* Stop is waiting for a stream that has not terminated, and Status answers
\* Stopping/active
C24_Witness ==
  /\ Draining("c1") /\ pc["c1"] = "sp_wait"
  /\ ~Terminated(sess[loc["c1"].act].stream)
  /\ Status = [state |-> Stopping, active |-> TRUE]

\* ------------------------------------------------------------------ C27

\* the send side of the streaming session has been closed, by CloseSend or by
\* Close
SendSideClosed(st) ==
  IF st.kind = "fake" THEN st.closeSend > 0 \/ st.closeCalls > 0 ELSE st.sendClosed

\* the capture source's Stop has been invoked
CaptureStopInvoked(i) == sess[i].audio.stopCalls > 0

C27_StopInvoked ==
  \A i \in Sids : Created(i) /\ EndedBy("c1", i) => CaptureStopInvoked(i)

C27_HalfClosedBeforeWait ==
  pc["c1"] = "sp_wait" =>
    /\ SendSideClosed(sess[loc["c1"].act].stream)
    /\ CaptureStopInvoked(loc["c1"].act)

\* C27: in every shutdown path (Stop, Abort and restart-supersede) the capture
\* source's Stop is invoked, and it is invoked before the streaming session's
\* send side is closed (by CloseSend or by Close, including a Close triggered
\* by cancelling the session scope); in Stop the send side is half-closed
\* before the controller starts waiting for stream termination.
C27_CaptureStoppedFirst ==
  /\ C27_StopInvoked
  /\ \A i \in Sids : Created(i) /\ SendSideClosed(sess[i].stream) => CaptureStopInvoked(i)
  /\ C27_HalfClosedBeforeWait

\* the parts that hold: Stop is invoked on every path, in Stop before the
\* half-close, which precedes the wait, and with the in-memory session, which
\* does not watch its scope, before every close of the send side
C27_CaptureStoppedFirstInStop ==
  /\ C27_StopInvoked
  /\ \A i \in Sids : Created(i) /\ SendSideClosed(sess[i].stream)
       /\ (sess[i].stream.kind = "fake" \/ ~sess[i].cancelled)
       => CaptureStopInvoked(i)
  /\ C27_HalfClosedBeforeWait

\* Abort has cancelled the scope of a Deepgram session and has not reached
\* audio.Stop yet; the session's context watcher has closed the send side
C27_Witness ==
  /\ loc["c1"].op = "Abort" /\ pc["c1"] = "ss_audio"
  /\ sess[1].stream.kind = "deepgram" /\ sess[1].cancelled
  /\ sess[1].stream.watcher = "done" /\ sess[1].stream.sendClosed
  /\ sess[1].audio.stopCalls = 0 /\ ~sess[1].audio.stopped

\* ------------------------------------------------------------------ C28

\* caller c has received from both completion signals of session i: Stop past
\* its two receives, Abort or a superseding Start past stopSession, until c's
\* next call begins
Observed(c, i) ==
  \/ /\ loc[c].op = "Stop" /\ loc[c].act = i
     /\ pc[c] \in {"sp_finalize", "sp_final", "fin_set", "fin_clear", "fin_publish"}
  \/ /\ loc[c].op = "Abort" /\ loc[c].act = i
     /\ pc[c] \in {"fin_set", "fin_clear", "fin_publish"}
  \/ /\ loc[c].op = "Start" /\ loc[c].prev = i
     /\ pc[c] \in {"st_stream", "st_audio", "st_rollback", "st_install", "st_go",
                   "st_publish"}
  \/ EndedBy(c, i) /\ loc[c].err # ErrNoActiveSession

\* what has been published for session i of the given kind
PublishedFor(i, kind) == SelectSeq(sink, LAMBDA e : e.sid = i /\ e.kind = kind)

\* the audio-stream errors published for session i
StreamErrorsFor(i) ==
  SelectSeq(sinkErrors, LAMBDA e : e.sid = i /\ e.code = ErrorCodeAudioStream)

\* a terminal state change of session i
Terminal(e, i) == e.sid = i /\ e.kind = "state" /\ e.a \in {Idle, ErrorSt}

C28_State ==
  \A i \in Sids :
    /\ sess[i].eventsDone <=> sess[i].consumer = "done"
    /\ sess[i].audioDone <=> sess[i].pump = "done"
    /\ \A c \in Callers : Observed(c, i) =>
         sess[i].eventsDone /\ sess[i].audioDone
    /\ \A k, l \in DOMAIN sink :
         Terminal(sink[k], i) /\ sink[l].sid = i /\ sink[l].kind = "partial" => l < k

C28_Step ==
  \A i \in Sids :
    /\ sess[i].eventsDone => sess'[i].eventsDone /\ sess'[i].consumer = "done"
    /\ sess[i].audioDone => sess'[i].audioDone /\ sess'[i].pump = "done"
    /\ (\E c \in Callers : Observed(c, i)) =>
         /\ sess'[i].aggregator = sess[i].aggregator
         /\ sess'[i].received = sess[i].received
         /\ sess'[i].stream.audio <= sess[i].stream.audio
         /\ PublishedFor(i, "partial")' = PublishedFor(i, "partial")
         /\ StreamErrorsFor(i)' = StreamErrorsFor(i)
    /\ \A c \in Callers :
         pc[c] = "sp_join" /\ pc'[c] # "sp_join" /\ loc[c].act = i
           => sess[i].consumer = "done" /\ loc'[c].raw = Raw(sess[i].aggregator)

\* C28: each background task's completion signal is closed exactly once and
\* only as the task's last action; once Stop, Abort or a superseding Start has
\* observed both signals of a session, no further Add on that session's
\* aggregator, no further SendAudio and no further partial-transcript or
\* audio-stream-error publication for that session occurs. In particular the
\* reconciled transcript is read only after the event consumer has finished,
\* and every partial-transcript event of a session precedes that session's
\* terminal state change.
C28_QuietAfterJoin == []C28_State /\ [][C28_Step]_vars

\* Stop has observed both signals of a session that published a partial
\* transcript and an audio-stream error, and has published the terminal state
C28_Witness ==
  /\ EndedBy("c1", 1) /\ loc["c1"].op = "Stop"
  /\ Len(PublishedFor(1, "partial")) > 0
  /\ Len(StreamErrorsFor(1)) > 0
  /\ \E k \in DOMAIN sink : Terminal(sink[k], 1)

\* ------------------------------------------------------------------ C29

\* the calls that follow the Start of the session
MaxOverlapCalls == 2

\* the session a successful first Start leaves behind, both tasks launched
startedSlot(stream) ==
  [newSlot(stream) EXCEPT !.audio.open = TRUE, !.state = Recording,
                          !.consumer = "run", !.pump = "read"]

\* a controller built with the in-memory provider and a grace period, caller
\* c1's Start having just returned nil
InitOverlap ==
  /\ provider = "fake" /\ graceOn = TRUE
  /\ current = 1
  /\ \E evs \in Preloads, e \in {Nil, Err("stream failed", 0)} :
       sess = <<startedSlot(newFakeStreamingSession(evs, e))>>
  /\ pc = [c \in Callers |-> "idle"]
  /\ loc = [c \in Callers |->
              IF c = "c1" THEN [noLocals EXCEPT !.op = "Start", !.act = 1, !.returned = TRUE]
              ELSE noLocals]
  /\ sink = <<[kind |-> "state", a |-> Recording, b |-> SessionReasonRecordingStarted,
               sid |-> 1]>>
  /\ sinkErrors = << >>
  /\ rulesCalls = << >> /\ clipboard = << >>
  /\ callsLeft = MaxOverlapCalls
  /\ panicked = FALSE
  /\ engine = noEngine

\* a step of one caller's Stop or Abort
StopOrAbort(c) ==
  \/ Stop(c) \/ stopAudioStop(c) \/ stopGrace(c) \/ stopCloseSend(c)
  \/ waitForStreamTimeout(c) \/ waitForStream(c) \/ stopReconcile(c) \/ Finalize(c)
  \/ stopFinalTranscript(c)
  \/ Abort(c) \/ stopSessionCancel(c) \/ stopSessionAudioStop(c) \/ stopSessionClose(c)
  \/ stopSessionJoin(c)
  \/ finishSessionSetState(c) \/ finishSessionClear(c) \/ finishSessionPublish(c)

\* the calls that follow the Start are Stops and Aborts, of either caller, and
\* may overlap
NextOverlap == (\E i \in Sids : Tasks(i)) \/ (\E c \in Callers : StopOrAbort(c))

SpecOverlap == InitOverlap /\ [][NextOverlap]_vars

\* the terminal state changes published for session i
TerminalsFor(i) == SelectSeq(sink, LAMBDA e : Terminal(e, i))

\* both callers are inside a Stop or an Abort of session i, or have returned
\* from one
Overlapped(i) ==
  \A c \in Callers : loc[c].op \in {"Stop", "Abort"} /\ loc[c].act = i

\* C29: no session causes more than one terminal state-change event (Idle or
\* Error) to be published to the sink, under any interleaving of Stop and
\* Abort calls on it (two overlapping Stops, or a Stop overlapping an Abort).
C29_OneTerminalEvent == \A i \in Sids : Len(TerminalsFor(i)) <= 1

\* a Stop and an Abort of the same session have overlapped and both have
\* published a terminal state change for it
C29_Witness ==
  /\ Overlapped(1)
  /\ loc["c1"].op = "Stop" /\ loc["c2"].op = "Abort"
  /\ EndedBy("c1", 1) /\ EndedBy("c2", 1)
  /\ Len(TerminalsFor(1)) = 2

\* ------------------------------------------------------------------ C30

\* the Stop calls on session i that returned a StopResult
StopResultsFor(i) ==
  {c \in Callers : /\ EndedBy(c, i) /\ loc[c].op = "Stop"
                   /\ loc[c].err = Nil}

\* C30: for every session the finalizer runs at most once: there is at most
\* one rules application, one clipboard write, one final-transcript event and
\* one StopResult per session, even when two Stop calls overlap on the same
\* session.
C30_FinalizedOnce ==
  /\ Len(rulesCalls) <= Cardinality({i \in Sids : Created(i)})
  /\ Len(clipboard) <= Cardinality({i \in Sids : Created(i)})
  /\ \A i \in Sids :
       /\ Len(PublishedFor(i, "final")) <= 1
       /\ Cardinality(StopResultsFor(i)) <= 1

\* two Stops of the same session have overlapped and each has applied the
\* rules, written the clipboard and returned a StopResult
C30_Witness ==
  /\ Overlapped(1)
  /\ StopResultsFor(1) = Callers
  /\ Len(rulesCalls) = 2 /\ Len(clipboard) = 2
  /\ Len(PublishedFor(1, "final")) = 2

\* ------------------------------------------------------------------ C40

C40_State ==
  \A i \in Sids :
    LET frags == Fragments(sess[i].received)
        agg == sess[i].aggregator IN
    /\ agg.finals = Texts(FinalsOf(frags))
    /\ agg.lastSpoken = IF frags = << >> THEN EmptyText ELSE frags[Len(frags)].text
    /\ \A k \in DOMAIN agg.finals :
         agg.finals[k] # EmptyText /\ TrimSpace(agg.finals[k]) = agg.finals[k]

\* an Add of an event whose trimmed text is empty
BlankAdded ==
  /\ Len(sess'[1].received) = Len(sess[1].received) + 1
  /\ TrimSpace(sess'[1].received[Len(sess'[1].received)].text) = EmptyText

C40_Step == BlankAdded => sess'[1].aggregator = sess[1].aggregator

\* C40: after any sequence of Add calls, the aggregator's final-segment list
\* is exactly the trimmed texts of the Final events with non-empty trimmed
\* text, in the order added, and last-spoken is the trimmed text of the most
\* recent event of either kind with non-empty trimmed text (empty if there was
\* none); an event with empty trimmed text changes nothing.
C40_FinalsAndLastSpoken == []C40_State /\ [][C40_Step]_vars

\* a padded Final, a Partial and a blank Partial have been added, in this order
C40_Witness ==
  /\ sess[1].received = <<Event(Final, T_padb), Event(Partial, T_a),
                          Event(Partial, T_blank)>>
  /\ sess[1].aggregator.finals = <<TrimSpace(T_padb)>>
  /\ Len(sess[1].aggregator.finals[1]) < Len(T_padb)
  /\ sess[1].aggregator.lastSpoken = T_a

\* ------------------------------------------------------------------ C35

\* the consumer of session i takes an event off the channel in this step
Consumed(i) == Len(sess'[i].received) = Len(sess[i].received) + 1

C35_Step ==
  \A i \in Sids :
    /\ Consumed(i) =>
         LET event == Head(sess[i].stream.events)
             text == TrimSpace(event.text)
             agg == sess[i].aggregator IN
         /\ sess[i].stream.events # << >>
         /\ sess'[i].received = Append(sess[i].received, event)
         /\ sess'[i].stream.events = Tail(sess[i].stream.events)
         /\ text = EmptyText => sess'[i].aggregator = agg /\ sink' = sink
         /\ text # EmptyText =>
              /\ sess'[i].aggregator.lastSpoken = text
              /\ sess'[i].aggregator.finals =
                   IF event.kind = Final THEN Append(agg.finals, text) ELSE agg.finals
         /\ text # EmptyText /\ event.kind = Partial =>
              sink' = Append(sink, [kind |-> "partial", a |-> text, b |-> "", sid |-> i])
         /\ event.kind = Final => sink' = sink
    /\ PublishedFor(i, "partial")' # PublishedFor(i, "partial") => Consumed(i)
    /\ sess'[i].eventsDone /\ ~sess[i].eventsDone =>
         /\ sess[i].stream.eventsClosed /\ sess[i].stream.events = << >>
         /\ sess[i].consumer = "run" /\ sess'[i].consumer = "done"
    /\ sess[i].eventsDone => sess'[i].eventsDone /\ ~Consumed(i)

\* C35: the event consumer processes the events of the stream in the order
\* they are delivered until the channel closes: every event with non-empty
\* trimmed text is added to the aggregator, every such Partial event is
\* republished to the sink as its trimmed text (each exactly once, in delivery
\* order), events with empty trimmed text cause no aggregator change and no
\* publication, Final events are never republished as partials, and the
\* completion signal is closed exactly once when the channel closes.
C35_ConsumerInOrder == [][C35_Step]_vars

\* the consumer has taken a Partial and a blank Final off the channel, has
\* republished the Partial alone, and has signalled its completion
C35_Witness ==
  /\ sess # << >>
  /\ sess[1].received = <<Event(Partial, T_a), Event(Final, T_blank)>>
  /\ sess[1].eventsDone /\ sess[1].consumer = "done"
  /\ Texts([k \in DOMAIN PublishedFor(1, "partial") |->
              [text |-> PublishedFor(1, "partial")[k].a]]) = <<T_a>>
  /\ sess[1].aggregator.lastSpoken = T_a /\ sess[1].aggregator.finals = << >>

\* ------------------------------------------------------------------ C34

\* the pump of session i returns in this step
PumpExits(i) == sess[i].pump # "done" /\ sess'[i].pump = "done"

C34_State ==
  \A i \in Sids :
    /\ Len(StreamErrorsFor(i)) <= 1
    /\ sess[i].audioDone <=> sess[i].pump = "done"
    /\ Len(StreamErrorsFor(i)) = 1 => sess[i].pump = "done"

C34_Step ==
  \A i \in Sids :
    \* a non-empty read is followed by its SendAudio, and that by the next read
    /\ sess[i].pump = "read" => sess'[i].pump \in {"read", "send", "done"}
    /\ sess[i].pump = "send" => sess'[i].pump \in {"send", "enqueue", "read", "done"}
    /\ sess[i].pump = "enqueue" => sess'[i].pump \in {"enqueue", "read", "done"}
    /\ sess'[i].stream.audio > sess[i].stream.audio => sess[i].pump = "enqueue"
    \* an error event is published only on the way out, always after a failed
    \* SendAudio and never twice
    /\ StreamErrorsFor(i)' # StreamErrorsFor(i) =>
         PumpExits(i) /\ Len(StreamErrorsFor(i)') = Len(StreamErrorsFor(i)) + 1
    /\ PumpExits(i) /\ sess[i].pump \in {"send", "enqueue"} =>
         StreamErrorsFor(i)' # StreamErrorsFor(i)
    /\ PumpExits(i) => sess'[i].audioDone /\ ~sess[i].audioDone
    \* nothing after the exit
    /\ sess[i].pump = "done" =>
         /\ sess'[i].pump = "done" /\ sess'[i].audioDone
         /\ sess'[i].stream.audio <= sess[i].stream.audio
         /\ StreamErrorsFor(i)' = StreamErrorsFor(i)

\* C34: the audio pump forwards every non-empty read to SendAudio in read
\* order and stops at the first failure: on clean end-of-input it exits with
\* no error event, on any other read error or on the first SendAudio error it
\* publishes exactly one audio-stream error event and performs no further read
\* or send; in every case it closes its completion signal exactly once.
C34_PumpStopsAtFirstFailure == []C34_State /\ [][C34_Step]_vars

\* the pump of a Deepgram session has queued a chunk, has then exited on a
\* failure with one audio-stream error event, and the capture source was
\* never stopped
C34_Witness ==
  /\ sess # << >> /\ sess[1].stream.kind = "deepgram"
  /\ sess[1].pump = "done" /\ sess[1].audioDone
  /\ Len(StreamErrorsFor(1)) = 1
  /\ sess[1].stream.audio > 0
  /\ sess[1].audio.stopCalls = 0

\* ------------------------------------------------------------------ C33

\* Wait on the streaming session has returned
WaitReturned(st) == st.kind = "fake" \/ st.done

\* Close has been called on the streaming session: never, or exactly once
CloseCalledTimes(st, n) ==
  IF st.kind = "fake" THEN st.closeCalls = n
  ELSE st.closeOnce = (n > 0) /\ st.severs = n

\* caller c's Stop is past waitForStream and has not begun to finish the session
AfterWait(c) ==
  loc[c].op = "Stop" /\ pc[c] \in {"sp_join", "sp_finalize", "sp_final"}

C33_State ==
  \A c \in Callers : AfterWait(c) =>
    LET st == sess[loc[c].act].stream IN
    /\ WaitReturned(st)
    /\ loc[c].streamErr = st.err
    /\ ~loc[c].timedOut => CloseCalledTimes(st, 0)
    /\ loc[c].timedOut => CloseCalledTimes(st, 1)

C33_Step ==
  \A c \in Callers :
    LET st == sess[loc[c].act].stream IN
    /\ pc[c] = "sp_wait" /\ pc'[c] = "sp_join" =>
         WaitReturned(st) /\ loc'[c].streamErr = st.err /\ sess' = sess
    /\ pc[c] = "sp_wait" /\ loc'[c].timedOut /\ ~loc[c].timedOut =>
         /\ CloseCalledTimes(st, 0) /\ CloseCalledTimes(sess'[loc[c].act].stream, 1)
         /\ pc'[c] = "sp_wait"

\* C33: waitForStream: if the streaming session's Wait returns before the
\* timeout elapses, its result is returned and Close is not called; if the
\* timeout elapses first, Close is called on the session exactly once and
\* waitForStream then returns the value Wait returns (it does not return
\* before Wait has returned).
C33_WaitForStream == []C33_State /\ [][C33_Step]_vars

\* the timeout has elapsed on a Deepgram session whose Wait had not returned;
\* Close has been called once, and waitForStream has returned Wait's error
C33_Witness ==
  /\ AfterWait("c1") /\ pc["c1"] = "sp_join" /\ loc["c1"].timedOut
  /\ sess[loc["c1"].act].stream.kind = "deepgram"
  /\ sess[loc["c1"].act].stream.severs = 1
  /\ loc["c1"].streamErr # Nil

\* ------------------------------------------------------------------ C38

\* caller c's Stop has published the Stopping state of its session
StoppingPublished(c) ==
  \E k \in loc[c].mark + 1 .. Len(sink) :
    sink[k] = [kind |-> "state", a |-> Stopping, b |-> SessionReasonTranscribing,
               sid |-> loc[c].act]

C38_State ==
  \A c \in Callers : loc[c].op = "Stop" =>
    /\ ~graceOn => pc[c] # "sp_grace"
    /\ pc[c] \in {"sp_audio", "sp_grace"} => ~SendSideClosed(sess[loc[c].act].stream)
    /\ pc[c] \in {"sp_grace", "sp_closesend"} =>
         StoppingPublished(c) /\ CaptureStopInvoked(loc[c].act)

C38_Step ==
  \A c \in Callers :
    /\ pc'[c] = "sp_closesend" /\ pc[c] # "sp_closesend" =>
         pc[c] = IF graceOn THEN "sp_grace" ELSE "sp_audio"
    /\ pc[c] = "sp_audio" /\ pc'[c] # "sp_audio" =>
         pc'[c] = IF graceOn THEN "sp_grace" ELSE "sp_closesend"
    /\ pc[c] = "sp_closesend" /\ pc'[c] # "sp_closesend" =>
         /\ ~SendSideClosed(sess[loc[c].act].stream)
         /\ SendSideClosed(sess'[loc[c].act].stream)

\* C38: when the configured grace period is positive, Stop does not half-close
\* the stream's send side until the grace timer has fired or the caller's
\* context is done, whichever comes first; when it is zero Stop half-closes
\* immediately after signalling capture stop. In both cases the Stopping state
\* is published and capture stop is signalled before the wait begins.
C38_GraceBeforeHalfClose == []C38_State /\ [][C38_Step]_vars

\* Stop is waiting for the grace period of a Deepgram session: Stopping is
\* published, the capture source stopped, the send side still open
C38_Witness ==
  /\ graceOn /\ loc["c1"].op = "Stop" /\ pc["c1"] = "sp_grace"
  /\ sess[loc["c1"].act].stream.kind = "deepgram"
  /\ StoppingPublished("c1") /\ CaptureStopInvoked(loc["c1"].act)
  /\ ~SendSideClosed(sess[loc["c1"].act].stream)

\* ------------------------------------------------------------------ C37

\* the edges a session's state may take, Start building it in Recording
StateEdges ==
  {<<"none", Recording>>, <<Recording, Stopping>>, <<Stopping, Idle>>,
   <<Stopping, ErrorSt>>, <<Recording, Idle>>}

\* caller c sets the state of session i in this step: Stop's
\* setState(Stopping) or finishSession's setState
SetsState(c, i) ==
  \/ pc[c] = "idle" /\ pc'[c] = "sp_audio" /\ loc'[c].act = i
  \/ pc[c] = "fin_set" /\ pc'[c] = "fin_clear" /\ loc[c].act = i

C37_Step ==
  \A i \in Sids :
    /\ sess'[i].state # sess[i].state => <<sess[i].state, sess'[i].state>> \in StateEdges
    /\ \A c \in Callers : SetsState(c, i) =>
         /\ sess[i].state \notin {Idle, ErrorSt}
         /\ sess'[i].state = Stopping => sess[i].state = Recording
         /\ sess[i].state = Stopping /\ sess'[i].state = Idle => loc[c].op = "Stop"
         /\ sess[i].state = Recording /\ sess'[i].state = Idle => loc[c].op = "Abort"

\* C37: under every interleaving of controller calls, the state of a session
\* changes only along the edges Recording -> Stopping (Stop), Stopping -> Idle,
\* Stopping -> Error and Recording -> Idle (Abort): a session that has reached
\* Idle or Error is never set to another state, and a session in Stopping is
\* never moved to Idle by Abort or set to Stopping a second time.
C37_StateEdges == [][C37_Step]_vars

\* a Stop is draining session 1, which an overlapping Abort has set to Idle
C37_Witness ==
  /\ Draining("c1") /\ loc["c1"].act = 1
  /\ loc["c2"].op = "Abort" /\ loc["c2"].act = 1
  /\ pc["c2"] \in {"fin_clear", "fin_publish"}
  /\ sess[1].state = Idle

\* ------------------------------------------------------------------ C36

\* a read or send failure (the pump publishes its audio-stream error) or a
\* receive failure (the streaming session records its first error) happens to
\* session i in this step, while the session is Recording
FailsWhileRecording(i) ==
  /\ sess[i].state = Recording
  /\ \/ StreamErrorsFor(i)' # StreamErrorsFor(i)
     \/ sess[i].stream.err = Nil /\ sess'[i].stream.err # Nil

C36_Step ==
  \A i \in Sids :
    /\ FailsWhileRecording(i) =>
         /\ sess'[i].state = Recording
         /\ current' = current
         /\ sink' = sink
         /\ pc' = pc /\ loc' = loc
         /\ Len(sinkErrors') <= Len(sinkErrors) + 1
    \* only Stop and Abort take a session out of Recording, only a call takes
    \* it out of the controller
    /\ sess[i].state = Recording /\ sess'[i].state # Recording =>
         \E c \in Callers : SetsState(c, i) /\ loc'[c].op \in {"Stop", "Abort"}
    /\ current = i /\ current' # i =>
         \E c \in Callers : pc'[c] # pc[c] /\ loc'[c].op \in {"Start", "Stop", "Abort"}

\* what a returned call may have returned
C36_State ==
  \A c \in Callers : loc[c].returned =>
    /\ loc[c].op = "Start" =>
         loc[c].err \in {Nil, Err("streaming open failed", 0), Err("audio open failed", 0)}
    /\ loc[c].op = "Abort" => loc[c].err \in {Nil, ErrNoActiveSession}
    /\ loc[c].op = "Stop" /\ loc[c].raw # EmptyText =>
         loc[c].err \in {Nil, Err("rules failed", 0)}
    /\ loc[c].op = "Stop" /\ loc[c].raw = EmptyText =>
         loc[c].err \in {ErrNoActiveSession, ErrNoTranscript, loc[c].streamErr}

StatesPublished == SelectSeq(sink, LAMBDA e : e.kind = "state")

\* no Start, Stop or Abort is in progress
NoCallInProgress == \A c \in Callers : pc[c] = "idle"

\* C32: whenever no controller call is in progress, the state most recently
\* published to the sink equals the state that Status() reports, for every
\* sequence of Start, Stop and Abort calls, a Stop that ends in Error and a
\* Start that fails after superseding a previous session included.
C32_PublishedIsStatus ==
  NoCallInProgress /\ StatesPublished # << >> =>
    StatesPublished[Len(StatesPublished)].a = Status.state

\* the same without the two cases: after a call that did not end in Error and
\* was not a failed Start
C32_PublishedIsStatusOtherwise ==
  NoCallInProgress /\ StatesPublished # << >> =>
    \/ StatesPublished[Len(StatesPublished)].a = Status.state
    \/ StatesPublished[Len(StatesPublished)].a = ErrorSt /\ Status.state = Idle
    \/ \E c \in Callers :
         /\ loc[c].op = "Start" /\ loc[c].err # Nil /\ loc[c].prev # 0
         /\ StatesPublished[Len(StatesPublished)].a = Recording /\ Status.state = Idle

\* a Start that superseded session 1 has failed and returned: nothing is
\* recording, Status reports Idle, and the last state published is Recording
C32_Witness ==
  /\ NoCallInProgress
  /\ loc["c1"].op = "Start" /\ loc["c1"].returned /\ loc["c1"].err # Nil
  /\ loc["c1"].prev = 1
  /\ Status = [state |-> Idle, active |-> FALSE]
  /\ StatesPublished # << >> /\ StatesPublished[Len(StatesPublished)].a = Recording

\* ------------------------------------------------------------------ C31

\* the first session has nothing or one final buffered, the stream a second
\* Start is given has nothing buffered and no error to report
RestartInputs ==
  /\ sess[1].stream.events \in {<< >>, <<Event(Final, T_padb)>>}
  /\ \A i \in Sids \ {1} : sess[i].stream.kind = "fake" =>
       sess[i].stream.events = << >> /\ sess[i].stream.err = Nil

\* Start, lines 70-75, with such a stream
StartStreamingAgain(c) == StartStreaming(c) /\ RestartInputs'

\* a step of one caller's Start
Restart(c) ==
  \/ Start(c) \/ stopSessionCancel(c) \/ stopSessionAudioStop(c) \/ stopSessionClose(c)
  \/ stopSessionJoin(c) \/ StartStreamingAgain(c) \/ StartAudio(c) \/ startRollback(c)
  \/ startInstall(c) \/ startLaunch(c) \/ startPublish(c)

\* after the Start of session 1, caller c1 stops or aborts while caller c2
\* starts again, and the two calls may overlap
NextRestart ==
  (\E i \in Sids : Tasks(i)) \/ StopOrAbort("c1") \/ Restart("c2")

InitRestart == InitOverlap /\ RestartInputs

SpecRestart == InitRestart /\ [][NextRestart]_vars

\* caller c is inside finishSession and takes a step of it
FinishStep(c) == pc[c] \in {"fin_set", "fin_clear", "fin_publish"} /\ pc'[c] # pc[c]

\* nothing has been done to session i since its Start installed it
Untouched(i) ==
  /\ sess[i].state = Recording
  /\ ~sess[i].cancelled
  /\ sess[i].audio.open /\ sess[i].audio.stopCalls = 0
  /\ sess[i].stream.closeCalls = 0 /\ sess[i].stream.closeSend = 0

C31_Step ==
  \A c \in Callers : FinishStep(c) =>
    /\ current # loc[c].act => current' = current
    /\ current = loc[c].act => current' \in {current, 0}
    /\ \A i \in Sids \ {loc[c].act} :
         /\ sess'[i].state = sess[i].state
         /\ sess'[i].cancelled = sess[i].cancelled
         /\ sess'[i].audio = sess[i].audio
         /\ sess'[i].stream = sess[i].stream

C31_State ==
  /\ loc["c1"].op \in {"Stop", "Abort"} /\ loc["c1"].act = 1 /\ loc["c1"].returned
  /\ loc["c2"].op = "Start" /\ loc["c2"].returned /\ loc["c2"].err = Nil
  => /\ current = loc["c2"].act
     /\ Untouched(loc["c2"].act)

\* C31: finishing a session clears the active-session reference only if it
\* still refers to that session: when a Stop or Abort that began on session A
\* completes after a concurrent Start has installed session B, the reference
\* still points to B afterwards, B's state is still Recording, and B's
\* resources are untouched.
C31_FinishLeavesSuccessor == []C31_State /\ [][C31_Step]_vars

\* the Stop or Abort of session 1 returns in a step of finishSession taken
\* after the overlapping Start had installed session 2
FinishedAfterInstall ==
  /\ loc["c1"].op \in {"Stop", "Abort"} /\ loc["c1"].act = 1 /\ loc["c1"].returned
  /\ loc["c2"].op = "Start" /\ loc["c2"].prev = 1 /\ loc["c2"].returned
  /\ loc["c2"].err = Nil

\* both calls have returned, the Start first: its Recording/restarted event
\* precedes the terminal event of session 1 in the sink
C31_Witness ==
  /\ FinishedAfterInstall
  /\ current = 2 /\ Untouched(2)
  /\ \E k \in DOMAIN sink :
       /\ sink[k].sid = 2 /\ sink[k].kind = "state" /\ sink[k].a = Recording
       /\ Terminal(sink[Len(sink)], 1) /\ k < Len(sink)

\* ------------------------------------------------------------------ C39

\* the goroutines run as in SpecLive, but the consumer of Events() is under no
\* obligation: it may stop reading at any time, or never read
FairnessNoConsumer ==
  /\ WF_vars(Running1)
  /\ \A i \in 1 .. MaxCalls :
       /\ WF_vars(Pump(i)) /\ WF_vars(WriteLoop(i))
       /\ WF_vars(Closer(i)) /\ WF_vars(Watcher(i)) /\ WF_vars(ClosedRead(i))

SpecNoConsumer == InitLive /\ [][Next]_vars /\ FairnessNoConsumer

\* Close has been called on the Deepgram session i
Closed(i) == i \in Sids /\ sess[i].stream.kind = "deepgram" /\ sess[i].stream.closeOnce

\* session i has terminated: Wait returns and the Events channel is closed
WaitReturns(i) == i \in Sids /\ sess[i].stream.done /\ sess[i].stream.eventsClosed

\* the receive loop of session i takes a step
ReadLoopStep(i) ==
  \/ sess'[i].stream.budget < sess[i].stream.budget
  \/ sess[i].stream.readLoop = "run" /\ sess'[i].stream.readLoop = "done"

\* the receive loop is never waiting for room in the channel, what it delivers
\* goes to the end of the channel, and what finds the channel full is dropped
C39_Step ==
  \A i \in Sids : sess[i].stream.kind = "deepgram" /\ ReadLoopStep(i) =>
    LET before == sess[i].stream.events
        after == sess'[i].stream.events IN
    /\ Len(before) = EventCap => after = before
    /\ Len(before) < EventCap =>
         \/ after = before
         \/ Len(after) = Len(before) + 1 /\ SubSeq(after, 1, Len(before)) = before

\* C39: a streaming session terminates after Close (Wait returns and the
\* Events channel is closed) even when no consumer ever reads Events(): the
\* receive loop never blocks on delivering an event, because an event that
\* cannot be buffered is dropped rather than waited on, and the events that
\* are delivered keep the order in which they were received.
C39_TerminatesAfterClose ==
  /\ \A i \in 1 .. MaxCalls : Closed(i) ~> WaitReturns(i)
  /\ [][C39_Step]_vars

\* the same, a process that has died of a send on the closed audio queue
\* apart
C39_TerminatesUnlessPanicked ==
  /\ \A i \in 1 .. MaxCalls : Closed(i) ~> (WaitReturns(i) \/ panicked)
  /\ [][C39_Step]_vars

\* session 1 has terminated after Close with an event still in its channel
\* that nothing has read, the provider's error event having been dropped
C39_Witness ==
  /\ Closed(1) /\ WaitReturns(1)
  /\ sess[1].received = << >>
  /\ Len(sess[1].stream.events) = EventCap
  /\ sess[1].stream.budget = 0
  /\ sess[1].stream.err = Err("provider error", 0)

==============================================================================
